---- MODULE Spec2Model ----
(***************************************************************************)
(* State-machine model of the SimulAI correlation engine                   *)
(* (src/src/correlation/engine.py, rules.py, src/src/events/*.py).         *)
(*                                                                         *)
(* Units.  Timestamps and lags are whole minutes.  Confidence scores are   *)
(* tenths (8 stands for 0.8), so the pydantic range [0.0, 1.0] is 0..10.   *)
(* Event ids are token sequences (<<"A">>), so that the relationship key   *)
(* f"{cause}->{effect}" can be modelled as a concatenation.                *)
(***************************************************************************)
EXTENDS Integers, Sequences, FiniteSets, TLC

(***************************************************************************)
(* Bounds of the model.                                                    *)
(***************************************************************************)
\* Largest number of rules loaded into the rule library.
MaxRules == 2
\* Cap on the total number of entries of relationships_by_cause (one entry
\* per _add_relationship call since the last clear()).
MaxOffers == 3

\* Largest value of the detector's pattern counter that is followed.
MaxPatterns == 2

\* Call depth at which the interpreter ends a recursion with RecursionError
\* (1000 in CPython; scaled to the size of the event pool).
RecursionLimit == 6

(***************************************************************************)
(* Program constants.                                                      *)
(***************************************************************************)
\* Python None for an optional numeric bound of a rule.
NONE == -1
\* confidence_score: Field(..., ge=0.0, le=1.0), in tenths.
ConfidenceMin == 0
ConfidenceMax == 10
\* get_causal_chain(..., max_depth: int = 10)
DefaultMaxDepth == 10

(***************************************************************************)
(* Inputs: the event objects a caller may hand to the engine.  Each is a   *)
(* Python object; id, timestamp, event_type, severity, context.domain,     *)
(* context.tags and attributes are fixed by the producer, the edge lists   *)
(* triggers / triggered_by are mutated by the engine.                      *)
(* a and a2 carry the same id with different fields; a2 and b share a      *)
(* timestamp; a and c are 120 minutes apart.  a is the event of            *)
(* test_event_pattern_matching; b and a2 have no attributes and no tags.   *)
(* d is a third event of the type and timestamp of b and a2, with an id of *)
(* its own, and e an event of that type an hour later.                     *)
(***************************************************************************)
EventPool ==
  [ a  |-> [id |-> <<"A">>, timestamp |-> 0,   event_type |-> "price_change",
            severity |-> "high", domain |-> "pricing", tags |-> {"pricing"},
            attributes |-> [direction |-> "decrease"]],
    b  |-> [id |-> <<"B">>, timestamp |-> 60,  event_type |-> "demand_change",
            severity |-> "medium", domain |-> "sales", tags |-> {},
            attributes |-> <<>>],
    c  |-> [id |-> <<"C">>, timestamp |-> 120, event_type |-> "purchase",
            severity |-> "medium", domain |-> "sales", tags |-> {"pricing", "competition"},
            attributes |-> [direction |-> "increase"]],
    a2 |-> [id |-> <<"A">>, timestamp |-> 60,  event_type |-> "demand_change",
            severity |-> "high", domain |-> "pricing", tags |-> {},
            attributes |-> <<>>],
    d  |-> [id |-> <<"D">>, timestamp |-> 60,  event_type |-> "demand_change",
            severity |-> "low", domain |-> "sales", tags |-> {},
            attributes |-> <<>>],
    e  |-> [id |-> <<"E">>, timestamp |-> 120, event_type |-> "demand_change",
            severity |-> "low", domain |-> "sales", tags |-> {},
            attributes |-> <<>>] ]

Objects == DOMAIN EventPool

\* The events with the three timestamps and three types the rules tell apart.
CorePool == {"a", "b", "c", "a2"}

EventIds == {EventPool[o].id : o \in Objects}

\* RelationshipStrength, weakest first.
Strengths == <<"very_weak", "weak", "moderate", "strong", "very_strong">>

StrengthSet == {Strengths[i] : i \in 1..Len(Strengths)}

\* Constructor arguments of CorrelationEngine.
TimeWindows == {60, 120}

MinConfidences == {5}

\* A pattern is a dict, modelled as its set of <<key, value>> items.
NoPattern == {}

TypePattern(t) == {<<"event_type", t>>}

\* The rules a rule provider may load.
RuleChoices ==
  { \* the rule of test_relationship_discovery
    [name |-> "price_to_demand",
     cause_pattern |-> TypePattern("price_change"),
     effect_pattern |-> TypePattern("demand_change"),
     causality_type |-> "direct", base_strength |-> "strong", base_confidence |-> 8,
     min_time_lag_minutes |-> NONE, max_time_lag_minutes |-> 480,
     condition_func |-> "none", impact_calculator |-> "none", priority |-> 1],
    \* a type-unconstrained rule of lower confidence and higher priority
    [name |-> "any_to_any",
     cause_pattern |-> NoPattern, effect_pattern |-> NoPattern,
     causality_type |-> "correlational", base_strength |-> "moderate", base_confidence |-> 6,
     min_time_lag_minutes |-> NONE, max_time_lag_minutes |-> NONE,
     condition_func |-> "none", impact_calculator |-> "none", priority |-> 2],
    \* high confidence, very weak strength
    [name |-> "faint",
     cause_pattern |-> NoPattern, effect_pattern |-> NoPattern,
     causality_type |-> "probabilistic", base_strength |-> "very_weak", base_confidence |-> 9,
     min_time_lag_minutes |-> NONE, max_time_lag_minutes |-> NONE,
     condition_func |-> "none", impact_calculator |-> "none", priority |-> 3],
    \* confidence below the engine's threshold
    [name |-> "unsure",
     cause_pattern |-> TypePattern("price_change"),
     effect_pattern |-> NoPattern,
     causality_type |-> "contributory", base_strength |-> "weak", base_confidence |-> 3,
     min_time_lag_minutes |-> NONE, max_time_lag_minutes |-> NONE,
     condition_func |-> "none", impact_calculator |-> "none", priority |-> 1],
    \* a confidence pydantic rejects when the relationship is constructed
    [name |-> "overconfident",
     cause_pattern |-> TypePattern("price_change"),
     effect_pattern |-> NoPattern,
     causality_type |-> "direct", base_strength |-> "very_strong", base_confidence |-> 11,
     min_time_lag_minutes |-> NONE, max_time_lag_minutes |-> NONE,
     condition_func |-> "none", impact_calculator |-> "none", priority |-> 1] }

\* Arguments of add_manual_relationship: causality_type, strength, confidence.
ManualArgs ==
  { [causality_type |-> "direct",   strength |-> "strong",    confidence |-> 9],
    [causality_type |-> "indirect", strength |-> "very_weak", confidence |-> 8],
    [causality_type |-> "direct",   strength |-> "strong",    confidence |-> 12] }

VARIABLES
  time_window_minutes, min_confidence, auto_discover,   \* engine configuration
  events,                    \* dict id -> Event, as the objects in insertion order
  events_by_type,            \* defaultdict: event_type -> list of objects
  events_by_timestamp,       \* list of objects
  relationships,             \* dict rel_id -> relationship
  relationships_by_cause,    \* defaultdict: id -> list of relationships
  relationships_by_effect,   \* defaultdict: id -> list of relationships
  stats,                     \* the four counters
  rules,                     \* rule_library.rules
  rules_by_cause_type,       \* rule_library._rules_by_cause_type
  rules_by_effect_type,      \* rule_library._rules_by_effect_type
  triggers,                  \* per event object: Event.triggers
  triggered_by,              \* per event object: Event.triggered_by
  outcome,                   \* how the latest call ended
  query,                     \* the latest read-only call, with what it returned
  pattern_detector           \* pattern_detector.detected_patterns and ._pattern_counter

configVars == <<time_window_minutes, min_confidence, auto_discover>>

libraryVars == <<rules, rules_by_cause_type, rules_by_effect_type>>

engineVars == <<events, events_by_type, events_by_timestamp, relationships,
                relationships_by_cause, relationships_by_effect, stats,
                pattern_detector>>

vars == <<configVars, libraryVars, engineVars, triggers, triggered_by, outcome, query>>

(***************************************************************************)
(* Generic helpers.                                                        *)
(***************************************************************************)
EmptyMap == [x \in {} |-> x]

\* dict.get(key, default)
Get(map, key, default) == IF key \in DOMAIN map THEN map[key] ELSE default

\* defaultdict(list)[key].append(x)
AppendAt(map, key, x) ==
  IF key \in DOMAIN map THEN [map EXCEPT ![key] = Append(@, x)]
  ELSE map @@ (key :> <<x>>)

SeqToSet(s) == {s[i] : i \in 1..Len(s)}

\* x in list
InList(x, s) == \E i \in 1..Len(s) : s[i] = x

RECURSIVE SumLen(_, _)
SumLen(map, keys) ==
  IF keys = {} THEN 0
  ELSE LET k == CHOOSE k \in keys : TRUE
       IN Len(map[k]) + SumLen(map, keys \ {k})

\* Total number of entries of a defaultdict(list).
TotalLen(map) == SumLen(map, DOMAIN map)

(***************************************************************************)
(* Event (src/src/events/models.py).                                       *)
(***************************************************************************)
\* Event.time_since: minutes from other to o.
time_since(o, other) == EventPool[o].timestamp - EventPool[other].timestamp

\* Event.matches_pattern.  A pattern is the set of its <<key, value>> items;
\* the value of the key "tags" is [kind, items] with kind "list" for a list
\* or set and "tuple" for any other type, which the code does not look into.
\* A key that is none of the four named ones is compared only if the event
\* has an attribute of that name.
matches_pattern(o, pattern) ==
  \A item \in pattern :
    CASE item[1] = "event_type" -> EventPool[o].event_type = item[2]
      [] item[1] = "severity" -> EventPool[o].severity = item[2]
      [] item[1] = "domain" -> EventPool[o].domain = item[2]
      [] item[1] = "tags" ->
           item[2].kind = "list" => \E tag \in item[2].items : tag \in EventPool[o].tags
      [] OTHER ->
           item[1] \in DOMAIN EventPool[o].attributes =>
             EventPool[o].attributes[item[1]] = item[2]

\* Event.add_effect / Event.add_cause on an edge list.
add_edge(list, event_id) == IF InList(event_id, list) THEN list ELSE Append(list, event_id)

(***************************************************************************)
(* RelationshipStrength / CausalRelationship                               *)
(* (src/src/events/relationships.py).                                      *)
(***************************************************************************)
from_score(score) ==
  IF score >= 8 THEN "very_strong"
  ELSE IF score >= 6 THEN "strong"
  ELSE IF score >= 4 THEN "moderate"
  ELSE IF score >= 2 THEN "weak"
  ELSE "very_weak"

\* A CausalRelationship that accepts any confidence_score.
valid_confidence_unchecked(score) == TRUE

\* pydantic's check of confidence_score when a CausalRelationship is built.
valid_confidence(score) == ConfidenceMin <= score /\ score <= ConfidenceMax

\* A significance test on the confidence alone.
is_significant_by_confidence(rel, threshold) == rel.confidence_score >= threshold

is_significant(rel, threshold) ==
  rel.confidence_score >= threshold /\ rel.strength # "very_weak"

(***************************************************************************)
(* CausalRule / CausalRuleLibrary (src/src/correlation/rules.py).          *)
(***************************************************************************)
\* Python truthiness of an optional number: None and 0 are both false.
truthy(x) == x # NONE /\ x # 0

\* "event_type" in pattern
has_event_type(pattern) == \E item \in pattern : item[1] = "event_type"

\* pattern["event_type"]
pattern_event_type(pattern) == (CHOOSE item \in pattern : item[1] = "event_type")[2]

matches_cause(rule, o) == matches_pattern(o, rule.cause_pattern)

matches_effect(rule, o) == matches_pattern(o, rule.effect_pattern)

is_temporal_match(rule, cause, effect) ==
  LET time_diff == time_since(effect, cause)
  IN IF time_diff < 0 THEN FALSE
     ELSE IF truthy(rule.min_time_lag_minutes) /\ time_diff < rule.min_time_lag_minutes
       THEN FALSE
     ELSE IF truthy(rule.max_time_lag_minutes) /\ time_diff > rule.max_time_lag_minutes
       THEN FALSE
     ELSE TRUE

\* CausalRule.evaluate: status "none" (returns None), "raise" (the predicate
\* or the impact calculator raises) or "match" with the relationship details.
evaluate(rule, cause, effect) ==
  IF ~matches_cause(rule, cause) THEN [status |-> "none"]
  ELSE IF ~matches_effect(rule, effect) THEN [status |-> "none"]
  ELSE IF ~is_temporal_match(rule, cause, effect) THEN [status |-> "none"]
  ELSE IF rule.condition_func = "raise" THEN [status |-> "raise"]
  ELSE IF rule.condition_func = "false" THEN [status |-> "none"]
  ELSE IF rule.impact_calculator = "raise" THEN [status |-> "raise"]
  ELSE [status |-> "match",
        details |-> [causality_type |-> rule.causality_type,
                     strength |-> rule.base_strength,
                     confidence_score |-> rule.base_confidence,
                     time_lag_minutes |-> time_since(effect, cause),
                     discovery_method |-> <<"rule", rule.name>>]]

\* CausalRuleLibrary._index_rule on one of the two type indices.
index_rule(index, pattern, rule) ==
  IF has_event_type(pattern) THEN AppendAt(index, pattern_event_type(pattern), rule)
  ELSE index

\* list.sort(key=priority, reverse=True): stable, highest priority first.
RECURSIVE sort_by_priority(_)
sort_by_priority(s) ==
  IF Len(s) <= 1 THEN s
  ELSE LET front == sort_by_priority(SubSeq(s, 1, Len(s) - 1))
           x == s[Len(s)]
           keep == Cardinality({i \in 1..Len(front) : front[i].priority >= x.priority})
       IN SubSeq(front, 1, keep) \o <<x>> \o SubSeq(front, keep + 1, Len(front))

\* The loop of get_rules_for_cause over self.rules[i..].
RECURSIVE add_untyped_rules(_, _, _)
add_untyped_rules(acc, all, i) ==
  IF i > Len(all) THEN acc
  ELSE add_untyped_rules(
         IF ~has_event_type(all[i].cause_pattern) /\ ~InList(all[i], acc)
           THEN Append(acc, all[i]) ELSE acc,
         all, i + 1)

get_rules_for_cause(lib, by_cause_type, cause) ==
  sort_by_priority(
    add_untyped_rules(Get(by_cause_type, EventPool[cause].event_type, <<>>), lib, 1))

\* A find_matching_rules loop that catches what evaluate raises and goes on
\* to the next rule.
RECURSIVE collect_matches_swallowing(_, _, _, _, _)
collect_matches_swallowing(acc, candidates, i, cause, effect) ==
  IF i > Len(candidates) THEN acc
  ELSE LET result == evaluate(candidates[i], cause, effect)
       IN collect_matches_swallowing(
            IF result.status = "match"
              THEN [acc EXCEPT !.matches = Append(@, <<candidates[i], result.details>>)]
            ELSE acc,
            candidates, i + 1, cause, effect)

\* The loop of find_matching_rules over rules[i..]: acc.matches collects the
\* (rule, details) pairs; acc.raised once an evaluate call has raised.
RECURSIVE collect_matches(_, _, _, _, _)
collect_matches(acc, candidates, i, cause, effect) ==
  IF i > Len(candidates) \/ acc.raised THEN acc
  ELSE LET result == evaluate(candidates[i], cause, effect)
       IN collect_matches(
            IF result.status = "raise" THEN [acc EXCEPT !.raised = TRUE]
            ELSE IF result.status = "match"
              THEN [acc EXCEPT !.matches = Append(@, <<candidates[i], result.details>>)]
            ELSE acc,
            candidates, i + 1, cause, effect)

find_matching_rules(lib, by_cause_type, cause, effect) ==
  collect_matches([raised |-> FALSE, matches |-> <<>>],
                  get_rules_for_cause(lib, by_cause_type, cause), 1, cause, effect)

(***************************************************************************)
(* CorrelationEngine (src/src/correlation/engine.py).                      *)
(*                                                                         *)
(* The helpers below work on a record st of the fields a call mutates:     *)
(* relationships, relationships_by_cause, relationships_by_effect,         *)
(* triggers, triggered_by, stats, and raised (an exception is propagating).*)
(***************************************************************************)
\* ids of the stored events: the keys of self.events
stored_ids(evs) == {EventPool[evs[i]].id : i \in 1..Len(evs)}

\* self.events[event_id]
stored_event(evs, event_id) ==
  CHOOSE o \in SeqToSet(evs) : EventPool[o].id = event_id

\* rel_id = f"{cause_event_id}->{effect_event_id}"
rel_id(cause_id, effect_id) == cause_id \o <<"->">> \o effect_id

\* A replacement rule that also lets an equally confident relationship in.
replaces_on_tie(rel, existing) == rel.confidence_score >= existing.confidence_score

\* The update test of _add_relationship: the new relationship replaces the
\* stored one of the same key only with a strictly higher confidence.
replaces(rel, existing) == rel.confidence_score > existing.confidence_score

\* CorrelationEngine._add_relationship
add_relationship(st, evs, rel) ==
  LET key == rel_id(rel.cause_event_id, rel.effect_event_id)
      known == key \in DOMAIN st.relationships
      rels == IF known
                THEN IF replaces(rel, st.relationships[key])
                       THEN [st.relationships EXCEPT ![key] = rel]
                       ELSE st.relationships
                ELSE st.relationships @@ (key :> rel)
      counters == IF known THEN st.stats
                  ELSE [st.stats EXCEPT !.relationships_discovered = @ + 1]
      trg == IF rel.cause_event_id \in stored_ids(evs)
               THEN [st.triggers EXCEPT ![stored_event(evs, rel.cause_event_id)] =
                       add_edge(@, rel.effect_event_id)]
               ELSE st.triggers
      tby == IF rel.effect_event_id \in stored_ids(evs)
               THEN [st.triggered_by EXCEPT ![stored_event(evs, rel.effect_event_id)] =
                       add_edge(@, rel.cause_event_id)]
               ELSE st.triggered_by
  IN [st EXCEPT
        !.relationships = rels,
        !.stats = counters,
        !.relationships_by_cause = AppendAt(@, rel.cause_event_id, rel),
        !.relationships_by_effect = AppendAt(@, rel.effect_event_id, rel),
        !.triggers = trg,
        !.triggered_by = tby]

\* CausalRelationship(cause_event_id=..., effect_event_id=..., **details)
make_relationship(cause_id, effect_id, details) ==
  [cause_event_id |-> cause_id,
   effect_event_id |-> effect_id,
   causality_type |-> details.causality_type,
   strength |-> details.strength,
   confidence_score |-> details.confidence_score,
   time_lag_minutes |-> details.time_lag_minutes,
   discovery_method |-> details.discovery_method]

\* The loop of _check_causal_relationship over matches[i..].  Building the
\* relationship raises pydantic's ValidationError for a confidence outside
\* [0, 1]; the matches before it have been stored by then.
RECURSIVE store_matches(_, _, _, _, _, _, _)
store_matches(st, evs, threshold, matches, i, cause, effect) ==
  IF i > Len(matches) \/ st.raised THEN st
  ELSE LET rel == make_relationship(EventPool[cause].id, EventPool[effect].id, matches[i][2])
       IN store_matches(
            IF ~valid_confidence(rel.confidence_score) THEN [st EXCEPT !.raised = TRUE]
            ELSE IF is_significant(rel, threshold)
              THEN [add_relationship(st, evs, rel) EXCEPT !.stats.rules_applied = @ + 1]
            ELSE st,
            evs, threshold, matches, i + 1, cause, effect)

\* CorrelationEngine._check_causal_relationship; lib is the rule library as
\* <<rules, _rules_by_cause_type>>.
check_causal_relationship(st, evs, lib, threshold, cause, effect) ==
  LET found == find_matching_rules(lib[1], lib[2], cause, effect)
  IN IF found.raised THEN [st EXCEPT !.raised = TRUE]
     ELSE store_matches(st, evs, threshold, found.matches, 1, cause, effect)

\* Candidate causes that also take the events at the new event's own timestamp.
potential_causes_inclusive(by_timestamp, window, o) ==
  LET time_cutoff == EventPool[o].timestamp - window
  IN SelectSeq(by_timestamp,
       LAMBDA e : time_cutoff <= EventPool[e].timestamp
                  /\ EventPool[e].timestamp <= EventPool[o].timestamp)

\* potential_causes of _discover_relationships_for_event
potential_causes(by_timestamp, window, o) ==
  LET time_cutoff == EventPool[o].timestamp - window
  IN SelectSeq(by_timestamp,
       LAMBDA e : time_cutoff <= EventPool[e].timestamp
                  /\ EventPool[e].timestamp < EventPool[o].timestamp)

\* Candidate effects that leave out the events exactly one window later.
potential_effects_exclusive(by_timestamp, window, o) ==
  LET time_cutoff == EventPool[o].timestamp + window
  IN SelectSeq(by_timestamp,
       LAMBDA e : EventPool[o].timestamp < EventPool[e].timestamp
                  /\ EventPool[e].timestamp < time_cutoff)

\* potential_effects of _discover_relationships_for_event
potential_effects(by_timestamp, window, o) ==
  LET time_cutoff == EventPool[o].timestamp + window
  IN SelectSeq(by_timestamp,
       LAMBDA e : EventPool[o].timestamp < EventPool[e].timestamp
                  /\ EventPool[e].timestamp <= time_cutoff)

\* The two for-loops of _discover_relationships_for_event over list[i..];
\* as_effect tells whether o is the effect (first loop) or the cause.
RECURSIVE check_all(_, _, _, _, _, _, _, _)
check_all(st, evs, lib, threshold, list, i, o, as_effect) ==
  IF i > Len(list) \/ st.raised THEN st
  ELSE check_all(
         IF as_effect THEN check_causal_relationship(st, evs, lib, threshold, list[i], o)
         ELSE check_causal_relationship(st, evs, lib, threshold, o, list[i]),
         evs, lib, threshold, list, i + 1, o, as_effect)

\* CorrelationEngine._discover_relationships_for_event
discover_relationships_for_event(st, evs, by_timestamp, lib, window, threshold, o) ==
  LET after_causes ==
        check_all(st, evs, lib, threshold,
                  potential_causes(by_timestamp, window, o), 1, o, TRUE)
  IN check_all(after_causes, evs, lib, threshold,
               potential_effects(by_timestamp, window, o), 1, o, FALSE)

\* A sort that leaves the list in insertion order.
sort_by_insertion(s) == s

\* list.sort(key=lambda e: e.timestamp): stable, earliest first.
RECURSIVE sort_by_timestamp(_)
sort_by_timestamp(s) ==
  IF Len(s) <= 1 THEN s
  ELSE LET front == sort_by_timestamp(SubSeq(s, 1, Len(s) - 1))
           x == s[Len(s)]
           keep == Cardinality({i \in 1..Len(front) :
                     EventPool[front[i]].timestamp <= EventPool[x].timestamp})
       IN SubSeq(front, 1, keep) \o <<x>> \o SubSeq(front, keep + 1, Len(front))

(***************************************************************************)
(* PatternDetector (src/src/correlation/patterns.py).                      *)
(*                                                                         *)
(* A detector call works on a record acc: patterns (the list it returns),  *)
(* detected_patterns and pattern_counter (the detector's own fields) and   *)
(* raised.  support and confidence are fractions <<numerator, denominator>>*)
(* and min_support is given in tenths, like the confidences.               *)
(***************************************************************************)
\* Arguments the engine constructs its PatternDetector with, and the
\* defaults of the detector methods it calls.
EngineMinSupport == 1

DefaultMaxSequenceLength == 5

DefaultCoOccurrenceWindow == 60

DefaultMinCascadeLength == 3

DefaultToleranceMinutes == 30

\* fraction >= tenths / 10
at_least(fraction, tenths) == fraction[1] * 10 >= tenths * fraction[2]

\* A registration that does not move the pattern counter on.
register_without_count(acc, prefix, fields) ==
  LET pattern_id == <<prefix, acc.pattern_counter>>
      pattern == [fields EXCEPT !.pattern_id = pattern_id]
  IN [acc EXCEPT
        !.patterns = Append(@, pattern),
        !.detected_patterns =
           [k \in DOMAIN @ \cup {pattern_id} |-> IF k = pattern_id THEN pattern ELSE @[k]]]

\* patterns.append(pattern); self.detected_patterns[pattern.pattern_id] = pattern;
\* self._pattern_counter += 1, with pattern_id = f"{prefix}_{self._pattern_counter}"
register(acc, prefix, fields) ==
  LET pattern_id == <<prefix, acc.pattern_counter>>
      pattern == [fields EXCEPT !.pattern_id = pattern_id]
  IN [acc EXCEPT
        !.patterns = Append(@, pattern),
        !.detected_patterns =
           [k \in DOMAIN @ \cup {pattern_id} |-> IF k = pattern_id THEN pattern ELSE @[k]],
        !.pattern_counter = @ + 1]

\* tuple(e.event_type for e in sequence_events)
type_key(sequence_events) ==
  [i \in 1..Len(sequence_events) |-> EventPool[sequence_events[i]].event_type]

\* The double loop of detect_sequences from its k-th (i, length) combination
\* on: found collects the sequence_events that pass the checks, in loop order.
RECURSIVE sequence_windows(_, _, _, _, _)
sequence_windows(found, sorted_events, max_sequence_length, window, k) ==
  LET lengths == max_sequence_length - 1
      i == ((k - 1) \div lengths) + 1
      length == ((k - 1) % lengths) + 2
      sequence_events == SubSeq(sorted_events, i - length + 1, i)
      time_span == time_since(sequence_events[length], sequence_events[1])
  IN IF lengths <= 0 \/ k > Len(sorted_events) * lengths THEN found
     ELSE sequence_windows(
            IF i < length THEN found
            ELSE IF time_span > window THEN found
            ELSE Append(found, sequence_events),
            sorted_events, max_sequence_length, window, k + 1)

\* Keys of a dict filled in the order of list[i..], in insertion order.
RECURSIVE keys_in_order(_, _, _)
keys_in_order(acc, list, i) ==
  IF i > Len(list) THEN acc
  ELSE keys_in_order(IF InList(list[i], acc) THEN acc ELSE Append(acc, list[i]), list, i + 1)

\* The loop of detect_sequences over sequences.items() from the i-th key on.
RECURSIVE sequence_patterns(_, _, _, _, _, _)
sequence_patterns(acc, keys, found, total_windows, min_support, i) ==
  IF i > Len(keys) THEN acc
  ELSE LET occurrences == SelectSeq(found, LAMBDA w : type_key(w) = keys[i])
           support == <<Len(occurrences), total_windows>>
       IN sequence_patterns(
            IF at_least(support, min_support) /\ Len(occurrences) >= 2
              THEN register(acc, "seq",
                     [pattern_id |-> <<>>, pattern_type |-> "sequence",
                      event_types |-> keys[i], event_sequence |-> <<>>,
                      occurrence_count |-> Len(occurrences),
                      confidence |-> IF support[1] * 2 <= support[2]
                                       THEN <<support[1] * 2, support[2]>> ELSE <<1, 1>>,
                      support |-> support])
            ELSE acc,
            keys, found, total_windows, min_support, i + 1)

\* PatternDetector.detect_sequences
detect_sequences(acc, list, min_support, window, max_sequence_length) ==
  IF list = <<>> THEN acc
  ELSE LET sorted_events == sort_by_timestamp(list)
           found == sequence_windows(<<>>, sorted_events, max_sequence_length, window, 1)
           keys == keys_in_order(<<>>, [k \in 1..Len(found) |-> type_key(found[k])], 1)
       IN sequence_patterns(acc, keys, found, Len(sorted_events), min_support, 1)

\* EventType is a str enum: sorted() orders event types by their values.
type_rank(t) ==
  CASE t = "demand_change" -> 1
    [] t = "price_change" -> 2
    [] t = "purchase" -> 3

\* tuple(sorted([event1.event_type, event2.event_type]))
sorted_pair(t1, t2) == IF type_rank(t1) <= type_rank(t2) THEN <<t1, t2>> ELSE <<t2, t1>>

\* The double loop of detect_co_occurrences from (i, j) on: the keys of the
\* pairs counted, one entry per increment, in loop order.  The inner loop
\* breaks at the first event2 later than the window.
RECURSIVE co_occurrence_keys(_, _, _, _, _)
co_occurrence_keys(found, sorted_events, window_minutes, i, j) ==
  IF i > Len(sorted_events) THEN found
  ELSE IF j > Len(sorted_events)
         \/ time_since(sorted_events[j], sorted_events[i]) > window_minutes
    THEN co_occurrence_keys(found, sorted_events, window_minutes, i + 1, i + 2)
  ELSE LET t1 == EventPool[sorted_events[i]].event_type
           t2 == EventPool[sorted_events[j]].event_type
       IN co_occurrence_keys(
            IF t1 # t2 THEN Append(found, sorted_pair(t1, t2)) ELSE found,
            sorted_events, window_minutes, i, j + 1)

\* event_counts[t]
event_count(sorted_events, t) ==
  Len(SelectSeq(sorted_events, LAMBDA e : EventPool[e].event_type = t))

\* max(conf1, conf2) of two fractions
max_fraction(f, g) == IF f[1] * g[2] >= g[1] * f[2] THEN f ELSE g

\* The loop of detect_co_occurrences over co_occurrences.items() from the
\* i-th key on.
RECURSIVE co_occurrence_patterns(_, _, _, _, _, _, _)
co_occurrence_patterns(acc, keys, found, sorted_events, min_support, threshold, i) ==
  IF i > Len(keys) THEN acc
  ELSE LET count == Len(SelectSeq(found, LAMBDA key : key = keys[i]))
           support == <<count, Len(sorted_events)>>
           confidence == max_fraction(<<count, event_count(sorted_events, keys[i][1])>>,
                                      <<count, event_count(sorted_events, keys[i][2])>>)
       IN co_occurrence_patterns(
            IF at_least(support, min_support) /\ count >= 2 /\ at_least(confidence, threshold)
              THEN register(acc, "cooc",
                     [pattern_id |-> <<>>, pattern_type |-> "co_occurrence",
                      event_types |-> keys[i], event_sequence |-> <<>>,
                      occurrence_count |-> count,
                      confidence |-> confidence,
                      support |-> support])
            ELSE acc,
            keys, found, sorted_events, min_support, threshold, i + 1)

\* PatternDetector.detect_co_occurrences
detect_co_occurrences(acc, list, min_support, threshold, window_minutes) ==
  IF list = <<>> THEN acc
  ELSE LET sorted_events == sort_by_timestamp(list)
           found == co_occurrence_keys(<<>>, sorted_events, window_minutes, 1, 2)
           keys == keys_in_order(<<>>, found, 1)
       IN co_occurrence_patterns(acc, keys, found, sorted_events, min_support, threshold, 1)

\* events_by_id[event_id] of detect_cascades: a dict comprehension over the
\* list, so the last event of an id is the one kept.
event_by_id(list, event_id) ==
  list[CHOOSE i \in 1..Len(list) :
         /\ EventPool[list[i]].id = event_id
         /\ \A j \in (i + 1)..Len(list) : EventPool[list[j]].id # event_id]

\* PatternDetector._build_cascade_chain at call depth depth, with the loop
\* over root.triggers[i..] in cascade_children.  Nothing stops the recursion
\* on a cycle of triggers; the interpreter ends it with RecursionError once
\* the call depth passes RecursionLimit.
RECURSIVE build_cascade_chain(_, _, _)
RECURSIVE cascade_children(_, _, _, _, _)
\* chain.extend(child_chain)
extend_chain(found, child_chain) ==
  [chain |-> found.chain \o child_chain.chain, raised |-> child_chain.raised]

build_cascade_chain(root, list, depth) ==
  IF depth > RecursionLimit THEN [chain |-> <<>>, raised |-> TRUE]
  ELSE cascade_children([chain |-> <<root>>, raised |-> FALSE], root, list, 1, depth)

cascade_children(found, root, list, i, depth) ==
  IF i > Len(triggers[root]) \/ found.raised THEN found
  ELSE IF triggers[root][i] \notin stored_ids(list)
    THEN cascade_children(found, root, list, i + 1, depth)
  ELSE cascade_children(
         extend_chain(found, build_cascade_chain(event_by_id(list, triggers[root][i]),
                                                 list, depth + 1)),
         root, list, i + 1, depth)

\* if len(cascade) >= min_cascade_length: cascades_found.append(cascade)
keep_cascade(found, cascade, min_cascade_length) ==
  IF cascade.raised THEN [found EXCEPT !.raised = TRUE]
  ELSE IF Len(cascade.chain) >= min_cascade_length
    THEN [found EXCEPT !.chains = Append(@, cascade.chain)]
  ELSE found

\* The first loop of detect_cascades over events[i..]: the chains of the
\* root events that are long enough.
RECURSIVE cascades_found(_, _, _, _)
cascades_found(found, list, min_cascade_length, i) ==
  IF i > Len(list) \/ found.raised THEN found
  ELSE IF triggered_by[list[i]] # <<>>
    THEN cascades_found(found, list, min_cascade_length, i + 1)
  ELSE cascades_found(
         keep_cascade(found, build_cascade_chain(list[i], list, 1), min_cascade_length),
         list, min_cascade_length, i + 1)

\* The second loop of detect_cascades over cascades_found[i..].
RECURSIVE cascade_patterns(_, _, _, _)
cascade_patterns(acc, chains, list, i) ==
  IF i > Len(chains) THEN acc
  ELSE cascade_patterns(
         register(acc, "casc",
           [pattern_id |-> <<>>, pattern_type |-> "cascade",
            event_types |-> type_key(chains[i]),
            event_sequence |-> [k \in 1..Len(chains[i]) |-> EventPool[chains[i][k]].id],
            occurrence_count |-> 1,
            confidence |-> <<8, 10>>,
            support |-> <<Len(chains[i]), Len(list)>>]),
         chains, list, i + 1)

\* The second half of detect_cascades, given what the first loop found.
cascades_to_patterns(acc, found, list) ==
  IF found.raised THEN [acc EXCEPT !.raised = TRUE]
  ELSE cascade_patterns(acc, found.chains, list, 1)

\* PatternDetector.detect_cascades
detect_cascades(acc, list, min_cascade_length) ==
  cascades_to_patterns(
    acc, cascades_found([chains |-> <<>>, raised |-> FALSE], list, min_cascade_length, 1), list)

\* sum(f(intervals[i]) for i in range) of find_periodic_patterns
RECURSIVE sum_over(_, _)
sum_over(values, i) == IF i > Len(values) THEN 0 ELSE values[i] + sum_over(values, i + 1)

\* The loop of find_periodic_patterns over events_by_type.items() from the
\* i-th type on.  With m intervals of sum S the average is S / m and the
\* variance sum((m * x - S)^2) / m^3; std_dev <= tolerance is compared on the
\* squares.  confidence = 1 - min(std_dev / avg_interval, 1) divides by the
\* average, which raises ZeroDivisionError for an average of 0; otherwise the
\* confidence field of a periodic pattern holds the fraction
\* variance / avg_interval^2 whose root is taken off 1.
RECURSIVE periodic_patterns(_, _, _, _, _)
periodic_patterns(acc, types, list, tolerance_minutes, i) ==
  IF i > Len(types) \/ acc.raised THEN acc
  ELSE LET type_events == SelectSeq(list, LAMBDA e : EventPool[e].event_type = types[i])
           sorted_events == sort_by_timestamp(type_events)
           m == Len(sorted_events) - 1
           intervals == [k \in 1..m |-> time_since(sorted_events[k + 1], sorted_events[k])]
           S == sum_over(intervals, 1)
           squares == sum_over([k \in 1..m |-> (m * intervals[k] - S) * (m * intervals[k] - S)], 1)
       IN periodic_patterns(
            IF Len(type_events) < 3 THEN acc
            ELSE IF squares > tolerance_minutes * tolerance_minutes * m * m * m THEN acc
            ELSE IF S = 0 THEN [acc EXCEPT !.raised = TRUE]
            ELSE register(acc, "per",
                   [pattern_id |-> <<>>, pattern_type |-> "periodic",
                    event_types |-> <<types[i]>>, event_sequence |-> <<>>,
                    occurrence_count |-> Len(sorted_events),
                    confidence |-> <<squares, m * S * S>>,
                    support |-> <<Len(sorted_events), Len(list)>>]),
            types, list, tolerance_minutes, i + 1)

\* PatternDetector.find_periodic_patterns
find_periodic_patterns(acc, list, tolerance_minutes) ==
  periodic_patterns(acc,
    keys_in_order(<<>>, [k \in 1..Len(list) |-> EventPool[list[k]].event_type], 1),
    list, tolerance_minutes, 1)

\* A detector call on the detector's fields as an earlier call left them.
next_call(acc) == [acc EXCEPT !.patterns = <<>>]

\* The result of analyze_all_patterns when no detector has run.
no_patterns == [sequences |-> <<>>, co_occurrences |-> <<>>, cascades |-> <<>>, periodic |-> <<>>]

\* One entry of the dict analyze_all_patterns builds: run.acc holds the
\* detector's fields, run.patterns the entries so far.
dict_entry(run, key, acc) ==
  [acc |-> acc, patterns |-> [run.patterns EXCEPT ![key] = acc.patterns]]

\* PatternDetector.analyze_all_patterns: the four detectors in turn; a
\* detector that raises ends the call.
analyze_all_patterns(detector, list, min_support, threshold, window) ==
  LET start == [acc |-> [patterns |-> <<>>,
                         detected_patterns |-> detector.detected_patterns,
                         pattern_counter |-> detector.pattern_counter,
                         raised |-> FALSE],
                patterns |-> no_patterns]
      sequences(run) ==
        dict_entry(run, "sequences",
          detect_sequences(next_call(run.acc), list, min_support, window,
                           DefaultMaxSequenceLength))
      co_occurrences(run) ==
        dict_entry(run, "co_occurrences",
          detect_co_occurrences(next_call(run.acc), list, min_support, threshold,
                                DefaultCoOccurrenceWindow))
      cascades(run) ==
        dict_entry(run, "cascades",
          detect_cascades(next_call(run.acc), list, DefaultMinCascadeLength))
      periodic(run) ==
        IF run.acc.raised THEN run
        ELSE dict_entry(run, "periodic",
               find_periodic_patterns(next_call(run.acc), list, DefaultToleranceMinutes))
  IN periodic(cascades(co_occurrences(sequences(start))))

(***************************************************************************)
(* Queries.                                                                *)
(***************************************************************************)
\* The loop of get_effects / get_causes over rels[i..]: the stored event at
\* the other end of each relationship (field names the end to look up).
RECURSIVE other_ends(_, _, _, _)
other_ends(evs, rels, i, field) ==
  IF i > Len(rels) THEN <<>>
  ELSE LET other_id == IF field = "effect" THEN rels[i].effect_event_id
                       ELSE rels[i].cause_event_id
       IN (IF other_id \in stored_ids(evs)
             THEN <<[event |-> stored_event(evs, other_id), rel |-> rels[i]]>>
             ELSE <<>>)
          \o other_ends(evs, rels, i + 1, field)

\* CorrelationEngine.get_causes: (cause_event, relationship) pairs
get_causes(evs, by_effect, event_id) ==
  other_ends(evs, Get(by_effect, event_id, <<>>), 1, "cause")

\* CorrelationEngine.get_effects: (effect_event, relationship) pairs
get_effects(evs, by_cause, event_id) ==
  other_ends(evs, Get(by_cause, event_id, <<>>), 1, "effect")

\* index[event_id] on a defaultdict(list): a missing key is added with [].
after_subscript(index, event_id) ==
  [k \in DOMAIN index \cup {event_id} |-> Get(index, k, <<>>)]

\* index.get(event_id, []), the lookup of get_causes and get_effects,
\* leaves the defaultdict as it is.
after_get(index, event_id) == index

\* The index after get_causes / get_effects was called for each of ids.
RECURSIVE after_gets(_, _)
after_gets(index, ids) ==
  IF ids = {} THEN index
  ELSE LET event_id == CHOOSE x \in ids : TRUE
       IN after_gets(after_get(index, event_id), ids \ {event_id})

\* What a read-only call does to the engine: get_effects looked up
\* cause_ids, get_causes looked up effect_ids, nothing else was touched.
lookups(cause_ids, effect_ids) ==
  /\ relationships_by_cause' = after_gets(relationships_by_cause, cause_ids)
  /\ relationships_by_effect' = after_gets(relationships_by_effect, effect_ids)
  /\ UNCHANGED <<configVars, libraryVars, events, events_by_type, events_by_timestamp,
                 relationships, stats, pattern_detector, triggers, triggered_by, outcome>>

\* A traversal that never finds an id among the visited ones.
seen_never(visited, curr_id) == FALSE

\* curr_id in visited
seen(visited, curr_id) == curr_id \in visited

\* traverse of get_causal_chain; acc holds visited and chain, g the engine
\* fields it reads together with direction and max_depth.
RECURSIVE traverse(_, _, _, _)
RECURSIVE traverse_each(_, _, _, _, _)
traverse(acc, g, curr_id, depth) ==
  IF depth >= g.max_depth \/ seen(acc.visited, curr_id) THEN acc
  ELSE LET here == [visited |-> acc.visited \cup {curr_id},
                    chain |-> IF curr_id \in stored_ids(g.events)
                                THEN Append(acc.chain, stored_event(g.events, curr_id))
                                ELSE acc.chain]
           next == IF g.direction = "forward"
                     THEN get_effects(g.events, g.by_cause, curr_id)
                     ELSE get_causes(g.events, g.by_effect, curr_id)
       IN traverse_each(here, g, next, 1, depth)

\* The for-loop of traverse over next[i..].
traverse_each(acc, g, next, i, depth) ==
  IF i > Len(next) THEN acc
  ELSE traverse_each(traverse(acc, g, EventPool[next[i].event].id, depth + 1),
                     g, next, i + 1, depth)

\* CorrelationEngine.get_causal_chain: the events of the chain, in order.
get_causal_chain(event_id, direction, max_depth) ==
  IF event_id \notin stored_ids(events) THEN <<>>
  ELSE traverse([visited |-> {}, chain |-> <<>>],
                [events |-> events, by_cause |-> relationships_by_cause,
                 by_effect |-> relationships_by_effect,
                 direction |-> direction, max_depth |-> max_depth],
                event_id, 0).chain

\* The mutable fields a call works on, read from the current state.
current ==
  [relationships |-> relationships,
   relationships_by_cause |-> relationships_by_cause,
   relationships_by_effect |-> relationships_by_effect,
   triggers |-> triggers,
   triggered_by |-> triggered_by,
   stats |-> stats,
   raised |-> FALSE]

\* Writes the fields of st back and records how the call ended.
commit(st) ==
  /\ relationships' = st.relationships
  /\ relationships_by_cause' = st.relationships_by_cause
  /\ relationships_by_effect' = st.relationships_by_effect
  /\ triggers' = st.triggers
  /\ triggered_by' = st.triggered_by
  /\ stats' = st.stats
  /\ outcome' = IF st.raised THEN "raised" ELSE "ok"

zero_stats ==
  [events_processed |-> 0, relationships_discovered |-> 0,
   rules_applied |-> 0, patterns_detected |-> 0]

(***************************************************************************)
(* Operations.                                                             *)
(***************************************************************************)
\* PatternDetector.__init__
new_detector == [detected_patterns |-> EmptyMap, pattern_counter |-> 0]

\* No read-only call has been made yet.
no_query == [op |-> "none"]

\* CorrelationEngine.__init__
Init ==
  /\ time_window_minutes \in TimeWindows
  /\ min_confidence \in MinConfidences
  /\ auto_discover \in BOOLEAN
  /\ events = <<>>
  /\ events_by_type = EmptyMap
  /\ events_by_timestamp = <<>>
  /\ relationships = EmptyMap
  /\ relationships_by_cause = EmptyMap
  /\ relationships_by_effect = EmptyMap
  /\ stats = zero_stats
  /\ pattern_detector = new_detector
  /\ rules = <<>>
  /\ rules_by_cause_type = EmptyMap
  /\ rules_by_effect_type = EmptyMap
  /\ triggers = [o \in Objects |-> <<>>]
  /\ triggered_by = [o \in Objects |-> <<>>]
  /\ outcome = "ok"
  /\ query = no_query

\* CorrelationEngine.add_rule -> CausalRuleLibrary.add_rule
add_rule(rule) ==
  /\ Len(rules) < MaxRules
  /\ rules' = Append(rules, rule)
  /\ rules_by_cause_type' = index_rule(rules_by_cause_type, rule.cause_pattern, rule)
  /\ rules_by_effect_type' = index_rule(rules_by_effect_type, rule.effect_pattern, rule)
  /\ outcome' = "ok"
  /\ UNCHANGED <<query, configVars, engineVars, triggers, triggered_by>>

\* A duplicate test on the object offered instead of on its id.
is_duplicate_object(evs, o) == o \in SeqToSet(evs)

\* event.id in self.events
is_duplicate(evs, o) == EventPool[o].id \in stored_ids(evs)

\* CorrelationEngine.add_event
add_event(o) ==
  IF is_duplicate(events, o)
    THEN /\ outcome' = "duplicate"
         /\ UNCHANGED <<query, configVars, libraryVars, engineVars, triggers, triggered_by>>
    ELSE LET evs == Append(events, o)
             by_timestamp == sort_by_timestamp(Append(events_by_timestamp, o))
             counted == [current EXCEPT !.stats.events_processed = @ + 1]
             st == IF auto_discover
                     THEN discover_relationships_for_event(
                            counted, evs, by_timestamp, <<rules, rules_by_cause_type>>,
                            time_window_minutes, min_confidence, o)
                     ELSE counted
         IN /\ events' = evs
            /\ events_by_type' = AppendAt(events_by_type, EventPool[o].event_type, o)
            /\ events_by_timestamp' = by_timestamp
            /\ commit(st)
            /\ UNCHANGED <<query, pattern_detector, configVars, libraryVars>>

\* The fields add_events works on: those of current and the event storage.
current_engine ==
  [events |-> events,
   events_by_type |-> events_by_type,
   events_by_timestamp |-> events_by_timestamp,
   relationships |-> relationships,
   relationships_by_cause |-> relationships_by_cause,
   relationships_by_effect |-> relationships_by_effect,
   triggers |-> triggers,
   triggered_by |-> triggered_by,
   stats |-> stats,
   raised |-> FALSE]

\* One add_event call of the loop of add_events, on the fields s.
add_event_in(s, o) ==
  IF is_duplicate(s.events, o) THEN s
  ELSE LET evs == Append(s.events, o)
           by_timestamp == sort_by_timestamp(Append(s.events_by_timestamp, o))
           counted == [s EXCEPT !.events = evs,
                                !.events_by_type = AppendAt(@, EventPool[o].event_type, o),
                                !.events_by_timestamp = by_timestamp,
                                !.stats.events_processed = @ + 1]
       IN IF auto_discover
            THEN discover_relationships_for_event(
                   counted, evs, by_timestamp, <<rules, rules_by_cause_type>>,
                   time_window_minutes, min_confidence, o)
            ELSE counted

\* The loop of add_events over list[i..]; an exception ends it.
RECURSIVE add_events_in(_, _, _)
add_events_in(s, list, i) ==
  IF i > Len(list) \/ s.raised THEN s
  ELSE add_events_in(add_event_in(s, list[i]), list, i + 1)

\* CorrelationEngine.add_events
add_events(list) ==
  LET st == add_events_in(current_engine, list, 1)
  IN /\ events' = st.events
     /\ events_by_type' = st.events_by_type
     /\ events_by_timestamp' = st.events_by_timestamp
     /\ commit(st)
     /\ UNCHANGED <<query, pattern_detector, configVars, libraryVars>>

\* An add_manual_relationship that does not look its endpoints up first: the
\* relationship is built and stored whether or not both events exist.
add_manual_relationship_unchecked(cause_event_id, effect_event_id, args) ==
  LET both == cause_event_id \in stored_ids(events) /\ effect_event_id \in stored_ids(events)
      rel == [cause_event_id |-> cause_event_id,
              effect_event_id |-> effect_event_id,
              causality_type |-> args.causality_type,
              strength |-> args.strength,
              confidence_score |-> args.confidence,
              time_lag_minutes |->
                IF both THEN time_since(stored_event(events, effect_event_id),
                                        stored_event(events, cause_event_id))
                ELSE 0,
              discovery_method |-> <<"manual">>]
      st == IF valid_confidence(rel.confidence_score)
              THEN add_relationship(current, events, rel)
              ELSE [current EXCEPT !.raised = TRUE]
  IN /\ commit(st)
     /\ UNCHANGED <<query, pattern_detector, configVars, libraryVars, events, events_by_type,
                    events_by_timestamp>>

\* CorrelationEngine.add_manual_relationship
add_manual_relationship(cause_event_id, effect_event_id, args) ==
  IF cause_event_id \notin stored_ids(events) \/ effect_event_id \notin stored_ids(events)
    THEN /\ outcome' = "not_found"
         /\ UNCHANGED <<query, configVars, libraryVars, engineVars, triggers, triggered_by>>
    ELSE LET cause == stored_event(events, cause_event_id)
             effect == stored_event(events, effect_event_id)
             rel == [cause_event_id |-> cause_event_id,
                     effect_event_id |-> effect_event_id,
                     causality_type |-> args.causality_type,
                     strength |-> args.strength,
                     confidence_score |-> args.confidence,
                     time_lag_minutes |-> time_since(effect, cause),
                     discovery_method |-> <<"manual">>]
             st == IF valid_confidence(rel.confidence_score)
                     THEN add_relationship(current, events, rel)
                     ELSE [current EXCEPT !.raised = TRUE]
         IN /\ commit(st)
            /\ UNCHANGED <<query, pattern_detector, configVars, libraryVars, events, events_by_type,
                           events_by_timestamp>>

\* A clear that empties the collections and leaves the counters running.
clear_keeping_counters ==
  /\ events' = <<>>
  /\ events_by_type' = EmptyMap
  /\ events_by_timestamp' = <<>>
  /\ relationships' = EmptyMap
  /\ relationships_by_cause' = EmptyMap
  /\ relationships_by_effect' = EmptyMap
  /\ pattern_detector' = [pattern_detector EXCEPT !.detected_patterns = EmptyMap]
  /\ outcome' = "ok"
  /\ UNCHANGED <<query, configVars, libraryVars, triggers, triggered_by, stats>>

\* A clear that leaves the detector's registered patterns in place.
clear_keeping_patterns ==
  /\ events' = <<>>
  /\ events_by_type' = EmptyMap
  /\ events_by_timestamp' = <<>>
  /\ relationships' = EmptyMap
  /\ relationships_by_cause' = EmptyMap
  /\ relationships_by_effect' = EmptyMap
  /\ stats' = zero_stats
  /\ outcome' = "ok"
  /\ UNCHANGED <<query, pattern_detector, configVars, libraryVars, triggers, triggered_by>>

\* CorrelationEngine.clear
clear ==
  /\ events' = <<>>
  /\ events_by_type' = EmptyMap
  /\ events_by_timestamp' = <<>>
  /\ relationships' = EmptyMap
  /\ relationships_by_cause' = EmptyMap
  /\ relationships_by_effect' = EmptyMap
  /\ pattern_detector' = [pattern_detector EXCEPT !.detected_patterns = EmptyMap]
  /\ stats' = zero_stats
  /\ outcome' = "ok"
  /\ UNCHANGED <<query, configVars, libraryVars, triggers, triggered_by>>

\* The second half of detect_patterns, given what analyze_all_patterns did.
\* The detector registers what it finds as it goes, so what was registered
\* before an exception stays registered; the patterns_detected counter is
\* written only when the analysis returns.
count_patterns(run) ==
  /\ pattern_detector' = [detected_patterns |-> run.acc.detected_patterns,
                          pattern_counter |-> run.acc.pattern_counter]
  /\ stats' = IF run.acc.raised THEN stats
              ELSE [stats EXCEPT !.patterns_detected =
                      Len(run.patterns.sequences) + Len(run.patterns.co_occurrences)
                      + Len(run.patterns.cascades) + Len(run.patterns.periodic)]
  /\ outcome' = IF run.acc.raised THEN "raised" ELSE "ok"
  /\ query' = [op |-> "detect_patterns", raised |-> run.acc.raised,
               value |-> IF run.acc.raised THEN no_patterns ELSE run.patterns]
  /\ UNCHANGED <<configVars, libraryVars, events, events_by_type, events_by_timestamp,
                 relationships, relationships_by_cause, relationships_by_effect,
                 triggers, triggered_by>>

\* CorrelationEngine.detect_patterns
detect_patterns ==
  count_patterns(analyze_all_patterns(pattern_detector, events, EngineMinSupport,
                                      min_confidence, time_window_minutes))

\* The index lists grow with every _add_relationship call; a step that would
\* take them past MaxOffers entries is left out of the bounded specifications.
within_cap == TotalLen(relationships_by_cause') <= MaxOffers

(***************************************************************************)
(* Spec: every operation, on the events a, b and a2 (two ids).             *)
(***************************************************************************)
SmallPool == {"a", "b", "a2"}

SmallRules == {r \in RuleChoices : r.name \in {"price_to_demand", "any_to_any", "overconfident"}}

SmallPairs == {<<"a", "b">>}

Next ==
  \/ \E rule \in SmallRules : add_rule(rule)
  \/ \E o \in SmallPool : add_event(o) /\ within_cap
  \/ \E pair \in SmallPairs, args \in ManualArgs :
       /\ add_manual_relationship(EventPool[pair[1]].id, EventPool[pair[2]].id, args)
       /\ within_cap
  \/ clear

Spec == Init /\ [][Next]_vars

(***************************************************************************)
(* SpecManual: an engine built with auto_discover = False and no rules,    *)
(* driven by add_event, add_manual_relationship and clear on the events    *)
(* a, b, c (the set-up of test_causal_chain).  The manual relationships    *)
(* are the chain A->B, B->C, the cycle-closing C->A and the reversed B->A. *)
(***************************************************************************)
ChainPool == {"a", "b", "c"}

ChainPairs == {<<"a", "b">>, <<"b", "c">>, <<"c", "a">>, <<"b", "a">>}

ChainArgs == {args \in ManualArgs : args.confidence >= 9}

InitManual == Init /\ ~auto_discover

NextManual ==
  \/ \E o \in ChainPool : add_event(o)
  \/ \E pair \in ChainPairs, args \in ChainArgs :
       /\ add_manual_relationship(EventPool[pair[1]].id, EventPool[pair[2]].id, args)
       /\ within_cap
  \/ clear

SpecManual == InitManual /\ [][NextManual]_vars

(***************************************************************************)
(* SpecLoaded: an auto-discovering engine whose rules were all loaded      *)
(* before the first event, driven by add_event alone on a, b, c and a2.    *)
(***************************************************************************)
\* add_rule applied to each rule of a list in turn, starting from an empty library.
RECURSIVE load_rules(_)
load_rules(list) ==
  IF list = <<>> THEN [rules |-> <<>>, by_cause |-> EmptyMap, by_effect |-> EmptyMap]
  ELSE LET lib == load_rules(SubSeq(list, 1, Len(list) - 1))
           rule == list[Len(list)]
       IN [rules |-> Append(lib.rules, rule),
           by_cause |-> index_rule(lib.by_cause, rule.cause_pattern, rule),
           by_effect |-> index_rule(lib.by_effect, rule.effect_pattern, rule)]

RuleLists == UNION {[1..n -> RuleChoices] : n \in 0..MaxRules}

InitLoaded ==
  /\ time_window_minutes \in TimeWindows
  /\ min_confidence \in MinConfidences
  /\ auto_discover = TRUE
  /\ events = <<>>
  /\ events_by_type = EmptyMap
  /\ events_by_timestamp = <<>>
  /\ relationships = EmptyMap
  /\ relationships_by_cause = EmptyMap
  /\ relationships_by_effect = EmptyMap
  /\ stats = zero_stats
  /\ pattern_detector = new_detector
  /\ \E list \in RuleLists :
       /\ rules = load_rules(list).rules
       /\ rules_by_cause_type = load_rules(list).by_cause
       /\ rules_by_effect_type = load_rules(list).by_effect
  /\ triggers = [o \in Objects |-> <<>>]
  /\ triggered_by = [o \in Objects |-> <<>>]
  /\ outcome = "ok"
  /\ query = no_query

NextLoaded == \E o \in CorePool : add_event(o)

SpecLoaded == InitLoaded /\ [][NextLoaded]_vars

(***************************************************************************)
(* SpecEvaluate: CausalRule.evaluate called on every pair of a, b, c, a2    *)
(* with rules of every combination of patterns, lag bounds, predicate and  *)
(* impact calculator.                                                      *)
(***************************************************************************)
\* Values of min_time_lag_minutes / max_time_lag_minutes.
LagBounds == {NONE, 0, 60, 120}

\* condition_func: absent, or a predicate that returns True, returns False or raises.
Predicates == {"none", "true", "false", "raise"}

\* impact_calculator: absent, or a calculator that raises.
Calculators == {"none", "raise"}

EvalRules ==
  { [name |-> "test_rule",
     cause_pattern |-> cp, effect_pattern |-> ep,
     causality_type |-> "direct", base_strength |-> "strong", base_confidence |-> 8,
     min_time_lag_minutes |-> lo, max_time_lag_minutes |-> hi,
     condition_func |-> p, impact_calculator |-> ic, priority |-> 1] :
    cp \in {NoPattern, TypePattern("price_change")},
    ep \in {NoPattern, TypePattern("demand_change")},
    lo \in LagBounds, hi \in LagBounds, p \in Predicates, ic \in Calculators }

\* rule.evaluate(cause, effect), leaving the engine as it is.  A read-only
\* call changes nothing a later call could see, so one call per behaviour is
\* followed.
call_evaluate(rule, cause, effect) ==
  /\ query = no_query
  /\ query' = [op |-> "evaluate", rule |-> rule, cause |-> cause, effect |-> effect,
               value |-> evaluate(rule, cause, effect)]
  /\ UNCHANGED <<configVars, libraryVars, engineVars, triggers, triggered_by, outcome>>

NextEvaluate == \E rule \in EvalRules, cause \in CorePool, effect \in CorePool :
                  call_evaluate(rule, cause, effect)

SpecEvaluate == Init /\ [][NextEvaluate]_vars

(***************************************************************************)
(* SpecLibrary: find_matching_rules called on a pair of pool events, on a  *)
(* library loaded with any list of up to MaxRules rules (the same rule     *)
(* values may be added twice).                                             *)
(***************************************************************************)
\* rule_library.find_matching_rules(cause, effect); one call per behaviour.
call_find_matching_rules(cause, effect) ==
  /\ query = no_query
  /\ query' = [op |-> "find_matching_rules", cause |-> cause, effect |-> effect,
               value |-> find_matching_rules(rules, rules_by_cause_type, cause, effect)]
  /\ UNCHANGED <<configVars, libraryVars, engineVars, triggers, triggered_by, outcome>>

NextLibrary == \E cause \in Objects, effect \in Objects :
                 call_find_matching_rules(cause, effect)

SpecLibrary == InitLoaded /\ [][NextLibrary]_vars

(***************************************************************************)
(* SpecRaising: an auto-discovering engine whose library may hold rules    *)
(* with a predicate or an impact calculator that raises, driven by         *)
(* add_event and by add_events on batches of two events.                   *)
(***************************************************************************)
BrokenRules ==
  { [name |-> "broken_predicate",
     cause_pattern |-> NoPattern, effect_pattern |-> TypePattern("purchase"),
     causality_type |-> "direct", base_strength |-> "strong", base_confidence |-> 7,
     min_time_lag_minutes |-> NONE, max_time_lag_minutes |-> NONE,
     condition_func |-> "raise", impact_calculator |-> "none", priority |-> 1],
    [name |-> "broken_calculator",
     cause_pattern |-> TypePattern("price_change"), effect_pattern |-> NoPattern,
     causality_type |-> "direct", base_strength |-> "strong", base_confidence |-> 7,
     min_time_lag_minutes |-> NONE, max_time_lag_minutes |-> NONE,
     condition_func |-> "true", impact_calculator |-> "raise", priority |-> 1] }

RaisingRules ==
  BrokenRules \cup {r \in RuleChoices : r.name \in {"price_to_demand", "any_to_any"}}

RaisingRuleLists == UNION {[1..n -> RaisingRules] : n \in 0..MaxRules}

Batches == {<<x, y>> : x \in ChainPool, y \in ChainPool}

InitRaising ==
  /\ time_window_minutes \in TimeWindows
  /\ min_confidence \in MinConfidences
  /\ auto_discover = TRUE
  /\ events = <<>>
  /\ events_by_type = EmptyMap
  /\ events_by_timestamp = <<>>
  /\ relationships = EmptyMap
  /\ relationships_by_cause = EmptyMap
  /\ relationships_by_effect = EmptyMap
  /\ stats = zero_stats
  /\ pattern_detector = new_detector
  /\ \E list \in RaisingRuleLists :
       /\ rules = load_rules(list).rules
       /\ rules_by_cause_type = load_rules(list).by_cause
       /\ rules_by_effect_type = load_rules(list).by_effect
  /\ triggers = [o \in Objects |-> <<>>]
  /\ triggered_by = [o \in Objects |-> <<>>]
  /\ outcome = "ok"
  /\ query = no_query

NextRaising ==
  \/ \E o \in ChainPool : add_event(o)
  \/ \E list \in Batches : add_events(list)

SpecRaising == InitRaising /\ [][NextRaising]_vars

(***************************************************************************)
(* SpecStatistics: add_event, add_events, add_manual_relationship and      *)
(* clear in any order on an engine with preloaded rules (one of which      *)
(* raises), followed by one get_statistics.                                *)
(***************************************************************************)
\* CorrelationEngine.get_statistics
get_statistics ==
  [events_processed |-> stats.events_processed,
   relationships_discovered |-> stats.relationships_discovered,
   rules_applied |-> stats.rules_applied,
   patterns_detected |-> stats.patterns_detected,
   total_events |-> Len(events),
   total_relationships |-> Cardinality(DOMAIN relationships),
   rules_loaded |-> Len(rules),
   event_types |-> Cardinality(DOMAIN events_by_type)]

call_get_statistics ==
  /\ query = no_query
  /\ query' = [op |-> "get_statistics", value |-> get_statistics]
  /\ UNCHANGED <<configVars, libraryVars, engineVars, triggers, triggered_by, outcome>>

StatisticsRules ==
  {r \in RuleChoices \cup BrokenRules :
     r.name \in {"price_to_demand", "broken_calculator"}}

StatisticsRuleLists == UNION {[1..n -> StatisticsRules] : n \in 0..MaxRules}

SmallBatches == {<<x, y>> : x \in SmallPool, y \in SmallPool}

InitStatistics ==
  /\ time_window_minutes \in TimeWindows
  /\ min_confidence \in MinConfidences
  /\ auto_discover \in BOOLEAN
  /\ events = <<>>
  /\ events_by_type = EmptyMap
  /\ events_by_timestamp = <<>>
  /\ relationships = EmptyMap
  /\ relationships_by_cause = EmptyMap
  /\ relationships_by_effect = EmptyMap
  /\ stats = zero_stats
  /\ pattern_detector = new_detector
  /\ \E list \in StatisticsRuleLists :
       /\ rules = load_rules(list).rules
       /\ rules_by_cause_type = load_rules(list).by_cause
       /\ rules_by_effect_type = load_rules(list).by_effect
  /\ triggers = [o \in Objects |-> <<>>]
  /\ triggered_by = [o \in Objects |-> <<>>]
  /\ outcome = "ok"
  /\ query = no_query

\* The calls that change the engine come before the read-only call.
NextStatistics ==
  \/ query = no_query /\ \E o \in SmallPool : add_event(o) /\ within_cap
  \/ query = no_query /\ \E list \in SmallBatches : add_events(list) /\ within_cap
  \/ /\ query = no_query
     /\ \E pair \in SmallPairs, args \in ManualArgs :
          /\ add_manual_relationship(EventPool[pair[1]].id, EventPool[pair[2]].id, args)
          /\ within_cap
  \/ query = no_query /\ clear
  \/ call_get_statistics

SpecStatistics == InitStatistics /\ [][NextStatistics]_vars

(***************************************************************************)
(* SpecPatterns: an engine without rules, driven by add_event on a2, b and *)
(* c (two events of one type and timestamp, a third an hour later),        *)
(* add_manual_relationship and detect_patterns.  The manual                *)
(* relationships are A->B, B->C, A->C (two routes from A to C) and C->B    *)
(* (a cycle between B and C).                                              *)
(***************************************************************************)
PatternPool == {"a2", "b", "c"}

PatternPairs == {<<"a2", "b">>, <<"b", "c">>, <<"a2", "c">>, <<"c", "b">>}

PatternArgs == {args \in ManualArgs : args.confidence = 9}

\* The pattern ids count up with every pattern found; a detect_patterns call
\* that would take the counter past MaxPatterns is left out.
within_pattern_cap == pattern_detector'.pattern_counter <= MaxPatterns

NextPatterns ==
  \/ \E o \in PatternPool : add_event(o)
  \/ \E pair \in PatternPairs, args \in PatternArgs :
       /\ add_manual_relationship(EventPool[pair[1]].id, EventPool[pair[2]].id, args)
       /\ within_cap
  \/ detect_patterns /\ within_pattern_cap

SpecPatterns == InitManual /\ [][NextPatterns]_vars

(***************************************************************************)
(* SpecClear: an auto-discovering engine with preloaded rules, driven by   *)
(* add_events on batches of a, b and c, detect_patterns and clear.         *)
(***************************************************************************)
ClearRules == {r \in RuleChoices : r.name \in {"price_to_demand", "any_to_any"}}

ClearRuleLists == UNION {[1..n -> ClearRules] : n \in 0..MaxRules}

InitClear ==
  /\ time_window_minutes \in TimeWindows
  /\ min_confidence \in MinConfidences
  /\ auto_discover = TRUE
  /\ events = <<>>
  /\ events_by_type = EmptyMap
  /\ events_by_timestamp = <<>>
  /\ relationships = EmptyMap
  /\ relationships_by_cause = EmptyMap
  /\ relationships_by_effect = EmptyMap
  /\ stats = zero_stats
  /\ pattern_detector = new_detector
  /\ \E list \in ClearRuleLists :
       /\ rules = load_rules(list).rules
       /\ rules_by_cause_type = load_rules(list).by_cause
       /\ rules_by_effect_type = load_rules(list).by_effect
  /\ triggers = [o \in Objects |-> <<>>]
  /\ triggered_by = [o \in Objects |-> <<>>]
  /\ outcome = "ok"
  /\ query = no_query

NextClear ==
  \/ \E list \in Batches : add_events(list) /\ within_cap
  \/ detect_patterns /\ within_pattern_cap
  \/ clear

SpecClear == InitClear /\ [][NextClear]_vars

(***************************************************************************)
(* SpecMatching: Event.matches_pattern called once on an event of the pool *)
(* with a pattern dict of up to five keys: event_type, severity, domain,   *)
(* tags (a list or a tuple of tags) and the attribute name direction.      *)
(***************************************************************************)
TagValues ==
  {[kind |-> k, items |-> tags] : k \in {"list", "tuple"},
                                   tags \in {{"pricing"}, {"competition"}}}

PatternItems ==
  {<<"event_type", t>> : t \in {"price_change", "demand_change"}}
    \cup {<<"severity", v>> : v \in {"high", "medium"}}
    \cup {<<"domain", v>> : v \in {"pricing", "sales"}}
    \cup {<<"tags", v>> : v \in TagValues}
    \cup {<<"direction", v>> : v \in {"decrease", "increase"}}

\* A dict holds one value per key.
MatchPatterns ==
  {items \in SUBSET PatternItems : \A x, y \in items : x[1] = y[1] => x = y}

call_matches_pattern(o, pattern) ==
  /\ query = no_query
  /\ query' = [op |-> "matches_pattern", event |-> o, pattern |-> pattern,
               value |-> matches_pattern(o, pattern)]
  /\ UNCHANGED <<configVars, libraryVars, engineVars, triggers, triggered_by, outcome>>

NextMatching == \E o \in Objects, pattern \in MatchPatterns : call_matches_pattern(o, pattern)

SpecMatching == Init /\ [][NextMatching]_vars

(***************************************************************************)
(* SpecChain: an engine without rules, driven by add_event and             *)
(* add_manual_relationship on a, b and c as in SpecManual, and then asked  *)
(* once for a causal chain: from any id, in either direction, with a       *)
(* max_depth that is negative, 0, smaller than the graph, or the default.  *)
(***************************************************************************)
Directions == {"forward", "backward"}

MaxDepths == {-1, 0, 1, 2, DefaultMaxDepth}

call_get_causal_chain(event_id, direction, max_depth) ==
  /\ query = no_query
  /\ query' = [op |-> "get_causal_chain", event_id |-> event_id,
               direction |-> direction, max_depth |-> max_depth,
               value |-> get_causal_chain(event_id, direction, max_depth)]
  /\ lookups(IF direction = "forward"
               THEN stored_ids(get_causal_chain(event_id, direction, max_depth)) ELSE {},
             IF direction = "forward"
               THEN {} ELSE stored_ids(get_causal_chain(event_id, direction, max_depth)))

NextChain ==
  \/ query = no_query /\ \E o \in ChainPool : add_event(o)
  \/ /\ query = no_query
     /\ \E pair \in ChainPairs, args \in ChainArgs :
          /\ add_manual_relationship(EventPool[pair[1]].id, EventPool[pair[2]].id, args)
          /\ within_cap
  \/ \E event_id \in EventIds, direction \in Directions, max_depth \in MaxDepths :
       call_get_causal_chain(event_id, direction, max_depth)

SpecChain == InitManual /\ [][NextChain]_vars

(***************************************************************************)
(* SpecDiamond: an engine without rules holding up to four events a, b, c  *)
(* and d, given the manual relationships A->D, D->B, A->B and B->C once    *)
(* each in any order (two routes of different length from A to B), and     *)
(* then asked once for a causal chain.                                     *)
(***************************************************************************)
DiamondPool == {"a", "b", "c", "d"}

DiamondPairs == {<<"a", "d">>, <<"d", "b">>, <<"a", "b">>, <<"b", "c">>}

DiamondDepths == {2, 3, DefaultMaxDepth}

NextDiamond ==
  \/ query = no_query /\ \E o \in DiamondPool : add_event(o)
  \/ /\ query = no_query
     /\ \E pair \in DiamondPairs, args \in ChainArgs :
          /\ rel_id(EventPool[pair[1]].id, EventPool[pair[2]].id) \notin DOMAIN relationships
          /\ add_manual_relationship(EventPool[pair[1]].id, EventPool[pair[2]].id, args)
  \/ \E o \in DiamondPool, direction \in Directions, max_depth \in DiamondDepths :
       call_get_causal_chain(EventPool[o].id, direction, max_depth)

SpecDiamond == InitManual /\ [][NextDiamond]_vars

(***************************************************************************)
(* CorrelationAnalyzer (src/src/correlation/analysis.py): read-only        *)
(* queries over an engine.                                                 *)
(***************************************************************************)
DefaultTopN == 10

\* The loop of get_most_influential_events / get_most_affected_events over
\* engine.events.values() from the i-th event on: (event, count) for every
\* event whose get_effects / get_causes list (field names the end) is not
\* empty.
RECURSIVE event_counts(_, _, _, _)
event_counts(evs, index, field, i) ==
  IF i > Len(evs) THEN <<>>
  ELSE LET count == Len(other_ends(evs, Get(index, EventPool[evs[i]].id, <<>>), 1, field))
       IN (IF count > 0 THEN <<[event |-> evs[i], count |-> count]>> ELSE <<>>)
          \o event_counts(evs, index, field, i + 1)

\* list.sort(key=lambda x: x[1], reverse=True): stable, so entries of equal
\* count keep their order.
RECURSIVE sort_by_count(_)
sort_by_count(list) ==
  IF Len(list) <= 1 THEN list
  ELSE LET front == sort_by_count(SubSeq(list, 1, Len(list) - 1))
           x == list[Len(list)]
           k == Cardinality({i \in 1..Len(front) : front[i].count >= x.count})
       IN SubSeq(front, 1, k) \o <<x>> \o SubSeq(front, k + 1, Len(front))

\* list[:top_n], with Python's reading of a negative top_n.
first_n(list, top_n) ==
  IF top_n >= 0 THEN SubSeq(list, 1, IF top_n < Len(list) THEN top_n ELSE Len(list))
  ELSE SubSeq(list, 1, IF Len(list) + top_n > 0 THEN Len(list) + top_n ELSE 0)

\* CorrelationAnalyzer.get_most_influential_events
get_most_influential_events(top_n) ==
  first_n(sort_by_count(event_counts(events, relationships_by_cause, "effect", 1)), top_n)

\* CorrelationAnalyzer.get_most_affected_events
get_most_affected_events(top_n) ==
  first_n(sort_by_count(event_counts(events, relationships_by_effect, "cause", 1)), top_n)

(***************************************************************************)
(* SpecRanking: the engine of SpecManual without clear, asked once for one *)
(* of the two rankings.                                                    *)
(***************************************************************************)
TopNs == {0, 1, DefaultTopN}

call_get_most_influential_events(top_n) ==
  /\ query = no_query
  /\ query' = [op |-> "get_most_influential_events", top_n |-> top_n,
               value |-> get_most_influential_events(top_n)]
  /\ lookups(stored_ids(events), {})

call_get_most_affected_events(top_n) ==
  /\ query = no_query
  /\ query' = [op |-> "get_most_affected_events", top_n |-> top_n,
               value |-> get_most_affected_events(top_n)]
  /\ lookups({}, stored_ids(events))

NextRanking ==
  \/ query = no_query /\ \E o \in ChainPool : add_event(o)
  \/ /\ query = no_query
     /\ \E pair \in ChainPairs, args \in ChainArgs :
          /\ add_manual_relationship(EventPool[pair[1]].id, EventPool[pair[2]].id, args)
          /\ within_cap
  \/ \E top_n \in TopNs : call_get_most_influential_events(top_n)
  \/ \E top_n \in TopNs : call_get_most_affected_events(top_n)

SpecRanking == InitManual /\ [][NextRanking]_vars

DefaultMinLength == 3

\* if len(path) >= min_length: all_paths.append(path)
save_path(all_paths, path, min_length) ==
  IF Len(path) >= min_length THEN Append(all_paths, path) ELSE all_paths

\* CorrelationAnalyzer._explore_paths, with its loop over effects[i..] in
\* explore_each; all_paths is the list the calls append to.
RECURSIVE explore_paths(_, _, _, _)
RECURSIVE explore_each(_, _, _, _, _)
\* The body of _explore_paths once path and effects are known.
explore_from(all_paths, path, effects, min_length) ==
  IF effects = <<>> THEN save_path(all_paths, path, min_length)
  ELSE save_path(explore_each(all_paths, path, effects, 1, min_length), path, min_length)

explore_paths(all_paths, curr, path, min_length) ==
  explore_from(all_paths, Append(path, curr),
               get_effects(events, relationships_by_cause, EventPool[curr].id), min_length)

explore_each(all_paths, path, effects, i, min_length) ==
  IF i > Len(effects) THEN all_paths
  ELSE explore_each(
         IF effects[i].rel.confidence_score >= min_confidence
            /\ ~InList(effects[i].event, path)
           THEN explore_paths(all_paths, effects[i].event, path, min_length)
           ELSE all_paths,
         path, effects, i + 1, min_length)

\* root_events of find_critical_paths
root_events ==
  SelectSeq(events,
    LAMBDA e : get_causes(events, relationships_by_effect, EventPool[e].id) = <<>>)

\* The loop of find_critical_paths over root_events[i..].
RECURSIVE explore_roots(_, _, _, _)
explore_roots(all_paths, roots, i, min_length) ==
  IF i > Len(roots) THEN all_paths
  ELSE explore_roots(explore_paths(all_paths, roots[i], <<>>, min_length),
                     roots, i + 1, min_length)

\* path_confidence of find_critical_paths as the fraction <<total_conf, count>>
\* (<<0, 1>> for count 0): every get_effects entry of path[i] that leads to
\* path[i + 1] is added.
RECURSIVE path_confidence_from(_, _)
path_confidence_from(path, i) ==
  IF i >= Len(path) THEN <<0, 0>>
  ELSE LET effects == get_effects(events, relationships_by_cause, EventPool[path[i]].id)
           hits == SelectSeq(effects,
                     LAMBDA x : EventPool[x.event].id = EventPool[path[i + 1]].id)
           rest == path_confidence_from(path, i + 1)
       IN <<sum_over([k \in 1..Len(hits) |-> hits[k].rel.confidence_score], 1) + rest[1],
            Len(hits) + rest[2]>>

path_confidence(path) ==
  IF path_confidence_from(path, 1)[2] > 0 THEN path_confidence_from(path, 1) ELSE <<0, 1>>

\* paths.sort(key=path_confidence, reverse=True): stable.
RECURSIVE sort_by_path_confidence(_)
sort_by_path_confidence(paths) ==
  IF Len(paths) <= 1 THEN paths
  ELSE LET front == sort_by_path_confidence(SubSeq(paths, 1, Len(paths) - 1))
           x == paths[Len(paths)]
           key == path_confidence(x)
           k == Cardinality({i \in 1..Len(front) :
                   path_confidence(front[i])[1] * key[2] >= key[1] * path_confidence(front[i])[2]})
       IN SubSeq(front, 1, k) \o <<x>> \o SubSeq(front, k + 1, Len(front))

\* CorrelationAnalyzer.find_critical_paths
find_critical_paths(min_length) ==
  sort_by_path_confidence(explore_roots(<<>>, root_events, 1, min_length))

\* The ids of the events _explore_paths is called for by find_critical_paths.
explored_ids ==
  LET all_paths == explore_roots(<<>>, root_events, 1, 1)
  IN UNION {{EventPool[all_paths[i][k]].id : k \in 1..Len(all_paths[i])} :
              i \in 1..Len(all_paths)}

(***************************************************************************)
(* SpecPaths: an engine without rules holding a, b and c, given manual     *)
(* relationships A->B, B->C, A->C and C->B (a cycle below the root A) of   *)
(* confidence 0.9, 0.8 or 0.4 (below min_confidence), and then asked once  *)
(* for the critical paths.                                                 *)
(***************************************************************************)
PathArgs ==
  {[causality_type |-> "direct", strength |-> "strong", confidence |-> score] :
     score \in {9, 8, 4}}

PathPairs == {<<"a", "b">>, <<"b", "c">>, <<"a", "c">>, <<"c", "b">>}

MinLengths == {2, DefaultMinLength}

call_find_critical_paths(min_length) ==
  /\ query = no_query
  /\ query' = [op |-> "find_critical_paths", min_length |-> min_length,
               value |-> find_critical_paths(min_length)]
  /\ lookups(explored_ids, stored_ids(events))

NextPaths ==
  \/ query = no_query /\ \E o \in ChainPool : add_event(o)
  \/ /\ query = no_query
     /\ \E pair \in PathPairs, args \in PathArgs :
          /\ add_manual_relationship(EventPool[pair[1]].id, EventPool[pair[2]].id, args)
          /\ within_cap
  \/ \E min_length \in MinLengths : call_find_critical_paths(min_length)

SpecPaths == InitManual /\ [][NextPaths]_vars

DefaultBucketMinutes == 60

ReportTopN == 5

\* Counter(rel.causality_type for rel in engine.relationships.values())
get_causality_type_distribution ==
  [t \in {relationships[key].causality_type : key \in DOMAIN relationships} |->
     Cardinality({key \in DOMAIN relationships : relationships[key].causality_type = t})]

\* The (cause type, effect type) of a relationship whose two events are stored.
interaction(rel) ==
  <<EventPool[stored_event(events, rel.cause_event_id)].event_type,
    EventPool[stored_event(events, rel.effect_event_id)].event_type>>

\* The keys get_event_type_interactions counts: both events are stored.
interacting_keys ==
  {key \in DOMAIN relationships :
     /\ relationships[key].cause_event_id \in stored_ids(events)
     /\ relationships[key].effect_event_id \in stored_ids(events)}

\* CorrelationAnalyzer.get_event_type_interactions
get_event_type_interactions ==
  [pair \in {interaction(relationships[key]) : key \in interacting_keys} |->
     Cardinality({key \in interacting_keys : interaction(relationships[key]) = pair})]

\* sum(scores) over the relationships of keys
RECURSIVE sum_scores(_)
sum_scores(keys) ==
  IF keys = {} THEN 0
  ELSE LET key == CHOOSE k \in keys : TRUE
       IN relationships[key].confidence_score + sum_scores(keys \ {key})

\* CorrelationAnalyzer.get_average_relationship_strength: the averages as
\* fractions <<sum(scores), len(scores)>>.
get_average_relationship_strength ==
  [t \in {relationships[key].causality_type : key \in DOMAIN relationships} |->
     LET keys == {key \in DOMAIN relationships : relationships[key].causality_type = t}
     IN <<sum_scores(keys), Cardinality(keys)>>]

\* int(minutes_since_start // bucket_minutes) for an event of the sorted list
bucket_of(sorted_events, e, bucket_minutes) ==
  time_since(e, sorted_events[1]) \div bucket_minutes

\* CorrelationAnalyzer.get_temporal_distribution: the Counter, with the
\* label f"{lo}-{hi} min" as <<lo, hi>>.  Floor division by a bucket size
\* of 0 raises ZeroDivisionError.
get_temporal_distribution(bucket_minutes) ==
  IF events = <<>> THEN [raised |-> FALSE, value |-> EmptyMap]
  ELSE IF bucket_minutes = 0 THEN [raised |-> TRUE, value |-> EmptyMap]
  ELSE LET sorted_events == sort_by_timestamp(events)
           buckets == {bucket_of(sorted_events, e, bucket_minutes) : e \in SeqToSet(events)}
       IN [raised |-> FALSE,
           value |-> [label \in {<<k * bucket_minutes, (k + 1) * bucket_minutes>> : k \in buckets} |->
                        Cardinality({e \in SeqToSet(events) :
                          bucket_of(sorted_events, e, bucket_minutes) * bucket_minutes = label[1]})]]

\* f + g for fractions
add_fractions(f, g) == <<f[1] * g[2] + g[1] * f[2], f[2] * g[2]>>

\* sum of a list of fractions from the i-th on
RECURSIVE sum_fractions(_, _)
sum_fractions(list, i) ==
  IF i > Len(list) THEN <<0, 1>> ELSE add_fractions(list[i], sum_fractions(list, i + 1))

\* avg_confidence of one event's effects, as a fraction
average_confidence(effects) ==
  <<sum_over([k \in 1..Len(effects) |-> effects[k].rel.confidence_score], 1), Len(effects)>>

\* CorrelationAnalyzer.get_severity_impact_analysis: per severity the
\* averages as fractions (<<0, 1>> for an empty list) and the event count.
get_severity_impact_analysis ==
  [severity \in {EventPool[e].severity : e \in SeqToSet(events)} |->
     LET members == SelectSeq(events, LAMBDA e : EventPool[e].severity = severity)
         effects == [k \in 1..Len(members) |->
                       get_effects(events, relationships_by_cause, EventPool[members[k]].id)]
         confidence == [k \in 1..Len(SelectSeq(effects, LAMBDA x : x # <<>>)) |->
                          average_confidence(SelectSeq(effects, LAMBDA x : x # <<>>)[k])]
         total == sum_fractions(confidence, 1)
     IN [avg_effects |-> <<sum_over([k \in 1..Len(effects) |-> Len(effects[k])], 1),
                           Len(effects)>>,
         avg_confidence |-> IF confidence = <<>> THEN <<0, 1>>
                            ELSE <<total[1], total[2] * Len(confidence)>>,
         event_count |-> Len(effects)]]

\* CorrelationAnalyzer.generate_summary_report: the data its sections print
\* (the interactions as a dict; the report lists the five largest).
generate_summary_report ==
  [stats |-> get_statistics,
   influential |-> get_most_influential_events(ReportTopN),
   distribution |-> get_causality_type_distribution,
   interactions |-> get_event_type_interactions,
   averages |-> get_average_relationship_strength]

(***************************************************************************)
(* SpecQueries: the engine of SpecManual without clear, asked once for any *)
(* one of the engine's and the analyzer's queries; each call records what  *)
(* it returned and leaves the engine as its lookups leave it.              *)
(***************************************************************************)
BucketSizes == {DefaultBucketMinutes, 0}

call_get_causes(event_id) ==
  /\ query = no_query
  /\ query' = [op |-> "get_causes", event_id |-> event_id,
               value |-> get_causes(events, relationships_by_effect, event_id)]
  /\ lookups({}, {event_id})

call_get_effects(event_id) ==
  /\ query = no_query
  /\ query' = [op |-> "get_effects", event_id |-> event_id,
               value |-> get_effects(events, relationships_by_cause, event_id)]
  /\ lookups({event_id}, {})

call_get_causality_type_distribution ==
  /\ query = no_query
  /\ query' = [op |-> "get_causality_type_distribution",
               value |-> get_causality_type_distribution]
  /\ lookups({}, {})

call_get_event_type_interactions ==
  /\ query = no_query
  /\ query' = [op |-> "get_event_type_interactions", value |-> get_event_type_interactions]
  /\ lookups({}, {})

call_get_average_relationship_strength ==
  /\ query = no_query
  /\ query' = [op |-> "get_average_relationship_strength",
               value |-> get_average_relationship_strength]
  /\ lookups({}, {})

call_get_temporal_distribution(bucket_minutes) ==
  /\ query = no_query
  /\ query' = [op |-> "get_temporal_distribution", bucket_minutes |-> bucket_minutes,
               raised |-> get_temporal_distribution(bucket_minutes).raised,
               value |-> get_temporal_distribution(bucket_minutes).value]
  /\ outcome' = IF get_temporal_distribution(bucket_minutes).raised THEN "raised" ELSE outcome
  /\ UNCHANGED <<configVars, libraryVars, engineVars, triggers, triggered_by>>

call_get_severity_impact_analysis ==
  /\ query = no_query
  /\ query' = [op |-> "get_severity_impact_analysis", value |-> get_severity_impact_analysis]
  /\ lookups(stored_ids(events), {})

call_generate_summary_report ==
  /\ query = no_query
  /\ query' = [op |-> "generate_summary_report", value |-> generate_summary_report]
  /\ lookups(stored_ids(events), {})

NextQueries ==
  \/ query = no_query /\ \E o \in ChainPool : add_event(o)
  \/ /\ query = no_query
     /\ \E pair \in ChainPairs, args \in ChainArgs :
          /\ add_manual_relationship(EventPool[pair[1]].id, EventPool[pair[2]].id, args)
          /\ within_cap
  \/ \E o \in ChainPool : call_get_causes(EventPool[o].id)
  \/ \E o \in ChainPool : call_get_effects(EventPool[o].id)
  \/ \E o \in ChainPool, direction \in Directions, max_depth \in {0, DefaultMaxDepth} :
       call_get_causal_chain(EventPool[o].id, direction, max_depth)
  \/ call_get_statistics
  \/ \E top_n \in TopNs : call_get_most_influential_events(top_n)
  \/ \E top_n \in TopNs : call_get_most_affected_events(top_n)
  \/ call_get_causality_type_distribution
  \/ call_get_event_type_interactions
  \/ call_get_average_relationship_strength
  \/ \E bucket_minutes \in BucketSizes : call_get_temporal_distribution(bucket_minutes)
  \/ call_get_severity_impact_analysis
  \/ \E min_length \in MinLengths : call_find_critical_paths(min_length)
  \/ call_generate_summary_report

SpecQueries == InitManual /\ [][NextQueries]_vars

(***************************************************************************)
(* SpecDetector: an auto-discovering engine with the one rule any_to_any,  *)
(* fed batches of the events a2, b, c, d and e (four demand changes, three *)
(* at one time, and a purchase), whose detector is called method by method *)
(* on the engine's events, with clear() in between.  A call records the    *)
(* patterns it registered, also when it ended in an exception.             *)
(***************************************************************************)
DetectorBatches == {<<"b", "d", "e">>, <<"b", "e", "c">>, <<"a2", "b", "d">>}

InitDetector == InitClear /\ Len(rules) = 1 /\ rules[1].name = "any_to_any"

\* The detector's fields at the start of a call.
detector_acc ==
  [patterns |-> <<>>,
   detected_patterns |-> pattern_detector.detected_patterns,
   pattern_counter |-> pattern_detector.pattern_counter,
   raised |-> FALSE]

\* A call of a detector method that ended with the fields acc.
detector_call(op, acc) ==
  /\ pattern_detector' = [detected_patterns |-> acc.detected_patterns,
                          pattern_counter |-> acc.pattern_counter]
  /\ outcome' = IF acc.raised THEN "raised" ELSE "ok"
  /\ query' = [op |-> op, raised |-> acc.raised, registered |-> acc.patterns,
               value |-> IF acc.raised THEN <<>> ELSE acc.patterns]
  /\ UNCHANGED <<configVars, libraryVars, events, events_by_type, events_by_timestamp,
                 relationships, relationships_by_cause, relationships_by_effect, stats,
                 triggers, triggered_by>>

call_detect_sequences ==
  detector_call("detect_sequences",
    detect_sequences(detector_acc, events, EngineMinSupport, time_window_minutes,
                     DefaultMaxSequenceLength))

call_detect_co_occurrences ==
  detector_call("detect_co_occurrences",
    detect_co_occurrences(detector_acc, events, EngineMinSupport, min_confidence,
                          DefaultCoOccurrenceWindow))

call_detect_cascades ==
  detector_call("detect_cascades",
    detect_cascades(detector_acc, events, DefaultMinCascadeLength))

call_find_periodic_patterns ==
  detector_call("find_periodic_patterns",
    find_periodic_patterns(detector_acc, events, DefaultToleranceMinutes))

NextDetector ==
  \/ \E list \in DetectorBatches : add_events(list) /\ within_cap
  \/ call_detect_sequences /\ within_pattern_cap
  \/ call_detect_co_occurrences /\ within_pattern_cap
  \/ call_detect_cascades /\ within_pattern_cap
  \/ call_find_periodic_patterns /\ within_pattern_cap
  \/ clear

SpecDetector == InitDetector /\ [][NextDetector]_vars

(***************************************************************************)
(* Properties.                                                             *)
(***************************************************************************)
\* The relationships of the primary map.
stored_relationships == {relationships[key] : key \in DOMAIN relationships}

stored_objects == SeqToSet(events)

\* Number of entries of an index list that run from cause_id to effect_id.
entries(index, key, cause_id, effect_id) ==
  Len(SelectSeq(Get(index, key, <<>>),
        LAMBDA r : r.cause_event_id = cause_id /\ r.effect_event_id = effect_id))

\* C1: for every stored event e, x is in e.triggers iff the primary map holds
\* a relationship with cause e and effect x, and x is in e.triggered_by iff it
\* holds one with cause x and effect e, after any sequence of add_event,
\* add_manual_relationship and clear.
C1_EdgeListsMatchStore ==
  \A o \in stored_objects :
    /\ SeqToSet(triggers[o]) =
         {r.effect_event_id : r \in {q \in stored_relationships :
                                       q.cause_event_id = EventPool[o].id}}
    /\ SeqToSet(triggered_by[o]) =
         {r.cause_event_id : r \in {q \in stored_relationships :
                                      q.effect_event_id = EventPool[o].id}}

\* C2: relationships_by_cause[c] holds exactly the relationships of the
\* primary map whose cause is c, each once, and relationships_by_effect[e]
\* exactly those whose effect is e, each once.
C2_IndicesMatchPrimaryMap ==
  \A id \in EventIds :
    /\ SeqToSet(Get(relationships_by_cause, id, <<>>)) =
         {r \in stored_relationships : r.cause_event_id = id}
    /\ Len(Get(relationships_by_cause, id, <<>>)) =
         Cardinality({r \in stored_relationships : r.cause_event_id = id})
    /\ SeqToSet(Get(relationships_by_effect, id, <<>>)) =
         {r \in stored_relationships : r.effect_event_id = id}
    /\ Len(Get(relationships_by_effect, id, <<>>)) =
         Cardinality({r \in stored_relationships : r.effect_event_id = id})

\* C4: every stored relationship, rule-discovered or manual, has a lag equal
\* to effect.timestamp - cause.timestamp of its stored endpoints, and the lag
\* is >= 0.
C4_LagIsNonNegativeDifference ==
  \A r \in stored_relationships :
    /\ r.cause_event_id \in stored_ids(events)
    /\ r.effect_event_id \in stored_ids(events)
    /\ r.time_lag_minutes =
         time_since(stored_event(events, r.effect_event_id),
                    stored_event(events, r.cause_event_id))
    /\ r.time_lag_minutes >= 0

\* The relationship keys of the chain A->B->C and of the cycle-closing C->A.
key_ab == rel_id(<<"A">>, <<"B">>)

key_bc == rel_id(<<"B">>, <<"C">>)

key_ca == rel_id(<<"C">>, <<"A">>)

\* C8: with manual relationships A->B and B->C on stored events A, B, C,
\* get_causal_chain(A, forward) is exactly [A, B, C], and it still is after
\* the cycle-closing manual relationship C->A has been added.
C8_ChainIsABC ==
  (/\ stored_objects = {"a", "b", "c"}
   /\ DOMAIN relationships \in {{key_ab, key_bc}, {key_ab, key_bc, key_ca}}
   /\ \A r \in stored_relationships : r.discovery_method = <<"manual">>)
  => get_causal_chain(<<"A">>, "forward", DefaultMaxDepth) = <<"a", "b", "c">>

\* The chain A->B->C with the cycle closed by C->A, all three added by hand.
C8_Witness ==
  /\ stored_objects = {"a", "b", "c"}
  /\ DOMAIN relationships = {key_ab, key_bc, key_ca}
  /\ \A r \in stored_relationships : r.discovery_method = <<"manual">>
  /\ get_causal_chain(<<"A">>, "forward", DefaultMaxDepth) = <<"a", "b", "c">>

\* The relationships offered for the pair since the last clear(), in the order
\* they were offered: relationships_by_cause keeps every one of them.
offered(cause_id, effect_id) ==
  SelectSeq(Get(relationships_by_cause, cause_id, <<>>),
            LAMBDA r : r.effect_event_id = effect_id)

\* Every ordered pair has at most one stored relationship, filed under its own
\* key; it is the first of the most confident relationships offered for the
\* pair, and every offered pair is stored.
C3_StoredIsFirstMaximum ==
  /\ \A key \in DOMAIN relationships :
       LET r == relationships[key]
           offers == offered(r.cause_event_id, r.effect_event_id)
       IN /\ key = rel_id(r.cause_event_id, r.effect_event_id)
          /\ \A i \in 1..Len(offers) : offers[i].confidence_score <= r.confidence_score
          /\ \E i \in 1..Len(offers) :
               /\ offers[i] = r
               /\ \A j \in 1..(i - 1) : offers[j].confidence_score < r.confidence_score
  /\ \A id \in DOMAIN relationships_by_cause :
       \A i \in 1..Len(relationships_by_cause[id]) :
         rel_id(id, relationships_by_cause[id][i].effect_event_id) \in DOMAIN relationships

\* A stored relationship changes only for a strictly more confident one, and
\* only clear() removes a pair.
C3_ReplacedOnlyByHigher ==
  \A key \in DOMAIN relationships :
    \/ relationships' = EmptyMap
    \/ /\ key \in DOMAIN relationships'
       /\ \/ relationships'[key] = relationships[key]
          \/ relationships'[key].confidence_score > relationships[key].confidence_score

\* C3: the primary map holds at most one relationship per ordered pair; an
\* offer for a stored pair replaces it only with a strictly higher confidence
\* (the earlier one is kept on a tie), so between two clear() calls the
\* stored confidence never decreases and is the maximum offered so far.
C3_HighestConfidenceKept ==
  [](C3_StoredIsFirstMaximum) /\ [][C3_ReplacedOnlyByHigher]_vars

\* The pair A->B after three offers: a less confident one, then the stored
\* one, then a different relationship of the same confidence.
C3_Witness ==
  /\ key_ab \in DOMAIN relationships
  /\ LET offers == offered(<<"A">>, <<"B">>)
     IN /\ Len(offers) = 3
        /\ offers[1].confidence_score < offers[2].confidence_score
        /\ offers[2] = relationships[key_ab]
        /\ offers[3].confidence_score = offers[2].confidence_score
        /\ offers[3] # offers[2]

\* Every relationship the engine holds, in the primary map or in an index.
held_relationships ==
  stored_relationships
  \cup UNION {SeqToSet(relationships_by_cause[id]) : id \in DOMAIN relationships_by_cause}
  \cup UNION {SeqToSet(relationships_by_effect[id]) : id \in DOMAIN relationships_by_effect}

C6_OneEventPerId ==
  /\ \A i, j \in 1..Len(events) :
       i # j => EventPool[events[i]].id # EventPool[events[j]].id
  /\ Len(events_by_timestamp) = Len(events)
  /\ SeqToSet(events_by_timestamp) = stored_objects
  /\ TotalLen(events_by_type) = Len(events)
  /\ stats.events_processed = Len(events)

\* add_event of an object whose id is stored changes nothing of the engine.
C6_DuplicateChangesNothing ==
  \A o \in Objects :
    (EventPool[o].id \in stored_ids(events) /\ add_event(o))
      => UNCHANGED <<configVars, libraryVars, engineVars, triggers, triggered_by>>

\* C6: add_event with an event whose id is already stored is a no-op: events,
\* events_by_type, events_by_timestamp, the primary map, both indices and the
\* counters are unchanged, with auto-discovery on or off, also when the
\* offered event's fields differ from the stored one's.
C6_DuplicateAddIsNoOp ==
  [](C6_OneEventPerId) /\ [][C6_DuplicateChangesNothing]_vars

\* A duplicate was just refused by an auto-discovering engine that holds
\* event a (a2 carries the same id with other fields) and a relationship.
C6_Witness ==
  /\ outcome = "duplicate"
  /\ auto_discover
  /\ "a" \in stored_objects
  /\ relationships # EmptyMap

\* The library holds no rule whose confidence pydantic rejects, so no
\* add_event call ends in an exception.
library_is_valid ==
  \A i \in 1..Len(rules) : rules[i].base_confidence \in ConfidenceMin..ConfidenceMax

\* A rule's match clears the engine's significance test.
significant_rule(rule) ==
  rule.base_confidence >= min_confidence /\ rule.base_strength # "very_weak"

\* Positions of the loaded rules that match a as cause and b as effect, 60
\* minutes apart, and clear the significance test.
rules_for_ab ==
  {i \in 1..Len(rules) :
     /\ matches_cause(rules[i], "a") /\ matches_effect(rules[i], "b")
     /\ (truthy(rules[i].min_time_lag_minutes) => rules[i].min_time_lag_minutes <= 60)
     /\ (truthy(rules[i].max_time_lag_minutes) => rules[i].max_time_lag_minutes >= 60)
     /\ significant_rule(rules[i])}

\* C7: with a (t = 0) and b (t = 60) both inserted into a fresh
\* auto-discovering engine whose window is at least 60 minutes, in the order
\* [a, b] or [b, a], the engine stores no B->A, and it stores A->B exactly when
\* a loaded rule matches the pair; the stored A->B then has the type, strength
\* and confidence of the most confident such rule and lag 60: the same
\* relationship in both orders.
C7_OrderSymmetricDiscovery ==
  (auto_discover /\ {"a", "b"} \subseteq stored_objects /\ library_is_valid) =>
    /\ rel_id(<<"B">>, <<"A">>) \notin DOMAIN relationships
    /\ IF rules_for_ab = {} THEN key_ab \notin DOMAIN relationships
       ELSE /\ key_ab \in DOMAIN relationships
            /\ \E i \in rules_for_ab :
                 /\ \A j \in rules_for_ab : rules[j].base_confidence <= rules[i].base_confidence
                 /\ relationships[key_ab].causality_type = rules[i].causality_type
                 /\ relationships[key_ab].strength = rules[i].base_strength
                 /\ relationships[key_ab].confidence_score = rules[i].base_confidence
                 /\ relationships[key_ab].time_lag_minutes = 60

\* C7 witness: b was inserted before a, the window is exactly 60 minutes, and
\* A->B is stored from the rule price_to_demand.
C7_Witness ==
  /\ events = <<"b", "a">>
  /\ time_window_minutes = 60
  /\ library_is_valid
  /\ key_ab \in DOMAIN relationships
  /\ relationships[key_ab].discovery_method = <<"rule", "price_to_demand">>
  /\ relationships[key_ab].time_lag_minutes = 60

\* Every pair the library is asked about yields at least one index entry: a
\* valid library that holds the type-unconstrained significant rule any_to_any.
every_pair_is_recorded ==
  /\ library_is_valid
  /\ \E i \in 1..Len(rules) : rules[i].name = "any_to_any" /\ significant_rule(rules[i])

\* The index entries from cause_id to effect_id grew in this step.
evaluated(cause_id, effect_id) ==
  entries(relationships_by_cause', cause_id, cause_id, effect_id)
    > entries(relationships_by_cause, cause_id, cause_id, effect_id)

\* C9: when add_event accepts an event E with timestamp T, the rules are
\* evaluated for (X, E) exactly for the already stored X with
\* T - window <= X.timestamp < T and for (E, Y) exactly for the already stored
\* Y with T < Y.timestamp <= T + window; never for E with itself or with an
\* event of the same timestamp.
C9_StepPairsWithinWindow ==
  (auto_discover /\ every_pair_is_recorded /\ Len(events') = Len(events) + 1) =>
    LET E == events'[Len(events')]
        T == EventPool[E].timestamp
        W == time_window_minutes
        ts(id) == EventPool[stored_event(events, id)].timestamp
    IN \A id \in EventIds :
         /\ evaluated(id, EventPool[E].id) <=>
              (id \in stored_ids(events) /\ T - W <= ts(id) /\ ts(id) < T)
         /\ evaluated(EventPool[E].id, id) <=>
              (id \in stored_ids(events) /\ T < ts(id) /\ ts(id) <= T + W)
         /\ \A other \in EventIds \ {EventPool[E].id} :
              id # EventPool[E].id => ~evaluated(id, other)

C9_PairsWithinWindow == [][C9_StepPairsWithinWindow]_vars

\* C9 witness: with a 60 minute window, b (t = 60) was accepted last, after
\* a2 (t = 60), a stored event of its own timestamp, and c (t = 120), which lies exactly one
\* window later: B->C is recorded, nothing between A and B.
C9_Witness ==
  /\ every_pair_is_recorded
  /\ time_window_minutes = 60
  /\ SeqToSet(events) = {"a2", "c", "b"}
  /\ events[3] = "b"
  /\ entries(relationships_by_cause, <<"B">>, <<"B">>, <<"C">>) > 0
  /\ entries(relationships_by_cause, <<"A">>, <<"A">>, <<"B">>) = 0
  /\ entries(relationships_by_cause, <<"B">>, <<"A">>, <<"B">>) = 0

\* C10: every relationship auto-discovery stores, in the primary map or in an
\* index list, comes from a loaded rule whose confidence is at least
\* min_confidence and whose strength is not very_weak; rules_applied counts
\* exactly the index entries, and the edge lists name only stored
\* relationships: a match below the threshold or of very_weak strength leaves
\* no trace in any of them.
C10_OnlySignificantMatchesStored ==
  auto_discover =>
    /\ \A r \in held_relationships :
         /\ r.confidence_score >= min_confidence
         /\ r.strength # "very_weak"
         /\ \E i \in 1..Len(rules) :
              /\ r.discovery_method = <<"rule", rules[i].name>>
              /\ r.confidence_score = rules[i].base_confidence
              /\ r.strength = rules[i].base_strength
    /\ stats.rules_applied = TotalLen(relationships_by_cause)
    /\ stats.rules_applied = TotalLen(relationships_by_effect)
    /\ \A o \in Objects :
         /\ \A i \in 1..Len(triggers[o]) :
              rel_id(EventPool[o].id, triggers[o][i]) \in DOMAIN relationships
         /\ \A i \in 1..Len(triggered_by[o]) :
              rel_id(triggered_by[o][i], EventPool[o].id) \in DOMAIN relationships

\* C10 witness: the library holds only the rules faint (very_weak) and unsure
\* (confidence 0.3), both of which match (a, b); after a and b were added
\* nothing is stored and rules_applied is 0.
C10_Witness ==
  /\ Len(rules) = 2
  /\ rules[1].name = "faint" /\ rules[2].name = "unsure"
  /\ {"a", "b"} \subseteq stored_objects
  /\ matches_cause(rules[2], "a") /\ matches_effect(rules[2], "b")
  /\ relationships = EmptyMap
  /\ relationships_by_cause = EmptyMap
  /\ stats.rules_applied = 0
  /\ stats.events_processed >= 2

\* C11: rule.evaluate(cause, effect) returns none whenever the cause does not
\* match cause_pattern, the effect does not match effect_pattern, the effect
\* precedes the cause, the lag is below a configured minimum or above a
\* configured maximum (a configured bound is any number, 0 included), or the
\* predicate returns false; otherwise, unless the predicate or the calculator
\* raises, it returns the rule's causality_type, base_strength,
\* base_confidence and the lag effect.timestamp - cause.timestamp.
C11_EvaluateRejectsOutOfBounds ==
  query.op = "evaluate" =>
    LET rule == query.rule
        lag == EventPool[query.effect].timestamp - EventPool[query.cause].timestamp
        agrees(o, pattern) ==
          \A item \in pattern : item[1] = "event_type" => EventPool[o].event_type = item[2]
        rejected ==
          \/ ~agrees(query.cause, rule.cause_pattern)
          \/ ~agrees(query.effect, rule.effect_pattern)
          \/ lag < 0
          \/ rule.min_time_lag_minutes # NONE /\ lag < rule.min_time_lag_minutes
          \/ rule.max_time_lag_minutes # NONE /\ lag > rule.max_time_lag_minutes
          \/ rule.condition_func = "false"
    IN IF rejected THEN query.value.status = "none"
       ELSE (rule.condition_func # "raise" /\ rule.impact_calculator # "raise") =>
              /\ query.value.status = "match"
              /\ query.value.details.causality_type = rule.causality_type
              /\ query.value.details.strength = rule.base_strength
              /\ query.value.details.confidence_score = rule.base_confidence
              /\ query.value.details.time_lag_minutes = lag

\* C12: find_matching_rules(cause, effect) returns exactly the added rules for
\* which evaluate(cause, effect) is not none, each added rule once (as many
\* entries of a rule value as rules of that value were added and match), each
\* with its evaluate result, in order of non-increasing priority.
C12_EveryMatchingRuleOnce ==
  (query.op = "find_matching_rules" /\ ~query.value.raised) =>
    LET matches == query.value.matches
        result(rule) == evaluate(rule, query.cause, query.effect)
        added(rule) == {i \in 1..Len(rules) : rules[i] = rule}
        returned(rule) == {k \in 1..Len(matches) : matches[k][1] = rule}
    IN /\ \A rule \in RuleChoices :
            Cardinality(returned(rule)) =
              IF result(rule).status = "match" THEN Cardinality(added(rule)) ELSE 0
       /\ \A k \in 1..Len(matches) :
            /\ matches[k][1] \in RuleChoices
            /\ matches[k][2] = result(matches[k][1]).details
       /\ \A k \in 1..(Len(matches) - 1) :
            matches[k][1].priority >= matches[k + 1][1].priority

\* C13: an add_manual_relationship call whose cause id or effect id is not a
\* stored event returns the none sentinel and changes nothing: events and
\* their indices, the primary map, both relationship indices, every event's
\* triggers / triggered_by, the counters, the rules and the configuration.
C13_StepMissingEndpoint ==
  \A pair \in ChainPairs, args \in ChainArgs :
    LET cause_event_id == EventPool[pair[1]].id
        effect_event_id == EventPool[pair[2]].id
    IN (/\ cause_event_id \notin stored_ids(events) \/ effect_event_id \notin stored_ids(events)
        /\ add_manual_relationship(cause_event_id, effect_event_id, args))
       => /\ outcome' = "not_found"
          /\ UNCHANGED <<configVars, libraryVars, engineVars, triggers, triggered_by>>

C13_MissingEndpointIsNoOp == [][C13_StepMissingEndpoint]_vars

\* C13 witness: with two events stored and a relationship between them, a
\* call naming an event that is not stored has just returned none.
C13_Witness ==
  /\ outcome = "not_found"
  /\ Len(events) = 2
  /\ relationships # EmptyMap
  /\ \E o \in ChainPool : EventPool[o].id \notin stored_ids(events)

\* Some loaded rule's predicate or impact calculator raises on (cause, effect).
rule_raises(cause, effect) ==
  \E i \in 1..Len(rules) : evaluate(rules[i], cause, effect).status = "raise"

\* The pairs auto-discovery evaluates when o is added to the stored events
\* evs, in the order of evaluation: the earlier events within the window as
\* causes of o, then the later ones as its effects, each by timestamp.
discovery_pairs(evs, o) ==
  LET T == EventPool[o].timestamp
      W == time_window_minutes
      before == {x \in SeqToSet(evs) : T - W <= EventPool[x].timestamp /\ EventPool[x].timestamp < T}
      after == {y \in SeqToSet(evs) : T < EventPool[y].timestamp /\ EventPool[y].timestamp <= T + W}
  IN {<<x, o>> : x \in before} \cup {<<o, y>> : y \in after}

\* Pair p is evaluated no later than pair q when o is added.
not_later(p, q, o) ==
  LET rank(r) == IF r[2] = o THEN EventPool[r[1]].timestamp
                 ELSE EventPool[o].timestamp + EventPool[r[2]].timestamp + 1
  IN rank(p) <= rank(q)

raises_on_add(evs, o) ==
  o \notin SeqToSet(evs) /\ \E p \in discovery_pairs(evs, o) : rule_raises(p[1], p[2])

\* The stored events once add_event(o) has run on the stored events evs.
with_event(evs, o) == IF EventPool[o].id \in stored_ids(evs) THEN evs ELSE Append(evs, o)

\* C14, add_event: when a rule's predicate or calculator raises during the
\* discovery for a new event, add_event ends with that exception, and neither
\* the pair it was raised for nor any pair due after it gains an index entry.
C14_StepAddEvent ==
  \A o \in ChainPool :
    (add_event(o) /\ EventPool[o].id \notin stored_ids(events)) =>
      /\ (outcome' = "raised") <=> raises_on_add(events, o)
      /\ \A p \in discovery_pairs(events, o), q \in discovery_pairs(events, o) :
           (rule_raises(p[1], p[2]) /\ not_later(p, q, o)) =>
             ~evaluated(EventPool[q[1]].id, EventPool[q[2]].id)

\* C14, add_events: the exception ends the batch; the events after the one
\* whose discovery raised are not added.
C14_StepAddEvents ==
  \A list \in Batches :
    add_events(list) =>
      LET first == with_event(events, list[1])
      IN IF raises_on_add(events, list[1])
           THEN outcome' = "raised" /\ events' = first
         ELSE IF raises_on_add(first, list[2])
           THEN outcome' = "raised" /\ events' = with_event(first, list[2])
         ELSE outcome' = "ok" /\ events' = with_event(first, list[2])

\* C14: an exception raised by a rule's predicate or impact calculator during
\* auto-discovery propagates out of add_event and out of add_events; the
\* engine neither catches it nor goes on discovering.
C14_RuleErrorsPropagate == [][C14_StepAddEvent /\ C14_StepAddEvents]_vars

\* C14 witness: with any_to_any and a rule that raises on (b, c) loaded, b and
\* c are stored, the discovery for c has raised, and nothing was recorded for
\* (b, c) although any_to_any matches it.
C14_Witness ==
  /\ outcome = "raised"
  /\ events = <<"b", "c">>
  /\ \E i \in 1..Len(rules) : rules[i].name = "any_to_any"
  /\ rule_raises("b", "c")
  /\ relationships = EmptyMap

\* C15: after any sequence of add_event, add_events, add_manual_relationship
\* and clear calls, get_statistics() reports total_events equal to the number
\* of stored events and to events_processed, and total_relationships equal to
\* the number of entries of the primary map and to relationships_discovered.
C15_StatisticsAgree ==
  /\ stats.events_processed = Len(events)
  /\ stats.relationships_discovered = Cardinality(DOMAIN relationships)
  /\ query.op = "get_statistics" =>
       /\ query.value.total_events = Len(events)
       /\ query.value.total_events = query.value.events_processed
       /\ query.value.total_relationships = Cardinality(DOMAIN relationships)
       /\ query.value.total_relationships = query.value.relationships_discovered

\* C15 witness: get_statistics was called after a clear() and further calls,
\* one of which ended in an exception, with an event and a relationship stored.
C15_Witness ==
  /\ query.op = "get_statistics"
  /\ query.value.total_events = 2
  /\ query.value.total_relationships = 1
  /\ outcome = "raised"
  /\ \E o \in Objects : triggers[o] # <<>> /\ o \notin stored_objects

\* The fields of a newly constructed engine, holding fresh event objects.
fresh_engine ==
  [events |-> <<>>,
   events_by_type |-> EmptyMap,
   events_by_timestamp |-> <<>>,
   relationships |-> EmptyMap,
   relationships_by_cause |-> EmptyMap,
   relationships_by_effect |-> EmptyMap,
   triggers |-> [o \in Objects |-> <<>>],
   triggered_by |-> [o \in Objects |-> <<>>],
   stats |-> zero_stats,
   raised |-> FALSE]

\* C16, the state clear() leaves: no events, empty type and timestamp indices,
\* an empty primary map, empty cause and effect indices, no registered
\* patterns, all four counters 0; rules and configuration as before.
C16_StepClear ==
  clear =>
    /\ events' = <<>> /\ events_by_type' = EmptyMap /\ events_by_timestamp' = <<>>
    /\ relationships' = EmptyMap
    /\ relationships_by_cause' = EmptyMap /\ relationships_by_effect' = EmptyMap
    /\ pattern_detector'.detected_patterns = EmptyMap
    /\ stats'.events_processed = 0 /\ stats'.relationships_discovered = 0
    /\ stats'.rules_applied = 0 /\ stats'.patterns_detected = 0
    /\ UNCHANGED <<configVars, libraryVars>>

\* C16, reuse: a batch added to the emptied engine yields the primary map the
\* same batch yields on a newly constructed engine with the same rules.
C16_StepBatchAfterClear ==
  \A list \in Batches :
    (events = <<>> /\ add_events(list)) =>
      relationships' = add_events_in(fresh_engine, list, 1).relationships

\* C16: clear() resets events, relationships, registered patterns and
\* counters, keeps rules and configuration, and leaves an engine that treats
\* a batch of events like a newly constructed one.
C16_ClearResets == [][C16_StepClear /\ C16_StepBatchAfterClear]_vars

\* C16 witness: a batch was added after a clear() that followed a
\* detect_patterns call which had registered a pattern.
C16_Witness ==
  /\ pattern_detector.pattern_counter > 0
  /\ pattern_detector.detected_patterns = EmptyMap
  /\ stats.patterns_detected = 0
  /\ relationships # EmptyMap
  /\ stats.events_processed = 2 /\ Len(events) = 2

\* The patterns a returned detect_patterns call handed back, of all four kinds.
returned_patterns(kinds) ==
  IF query.op = "detect_patterns" /\ ~query.raised
    THEN UNION {SeqToSet(query.value[kind]) : kind \in kinds}
    ELSE {}

\* C17: every pattern the four detectors return has support within
\* [min_support, 1.0], and every sequence and co-occurrence pattern has
\* occurrence_count >= 2.
C17_SupportWithinBounds ==
  /\ \A p \in returned_patterns({"sequences", "co_occurrences", "cascades", "periodic"}) :
       at_least(p.support, EngineMinSupport) /\ p.support[1] <= p.support[2]
  /\ \A p \in returned_patterns({"sequences", "co_occurrences"}) : p.occurrence_count >= 2

\* C17 without the upper bound on the support of cascades.
C17_SupportOutsideCascades ==
  /\ \A p \in returned_patterns({"sequences", "co_occurrences", "periodic"}) :
       at_least(p.support, EngineMinSupport) /\ p.support[1] <= p.support[2]
  /\ \A p \in returned_patterns({"cascades"}) : at_least(p.support, EngineMinSupport)
  /\ \A p \in returned_patterns({"sequences", "co_occurrences"}) : p.occurrence_count >= 2

\* A supplied item agrees with the event: event_type, severity and domain
\* are equal, a tags value shares a tag with the event's tags, any other key
\* equals the event's attribute of that name.
agrees(o, item) ==
  CASE item[1] = "event_type" -> EventPool[o].event_type = item[2]
    [] item[1] = "severity" -> EventPool[o].severity = item[2]
    [] item[1] = "domain" -> EventPool[o].domain = item[2]
    [] item[1] = "tags" -> item[2].items \cap EventPool[o].tags # {}
    [] OTHER -> /\ item[1] \in DOMAIN EventPool[o].attributes
                /\ EventPool[o].attributes[item[1]] = item[2]

\* C18: an event matches a pattern exactly when every supplied field agrees
\* with the event; the empty pattern matches every event.
C18_MatchesExactlyWhenAllAgree ==
  query.op = "matches_pattern" =>
    (query.value <=> \A item \in query.pattern : agrees(query.event, item))

\* C18 for patterns whose tags value is a list or set and whose other keys
\* name attributes the event has.
C18_MatchesWhenKeysApply ==
  (/\ query.op = "matches_pattern"
   /\ \A item \in query.pattern :
        /\ item[1] = "tags" => item[2].kind = "list"
        /\ item[1] = "direction" => "direction" \in DOMAIN EventPool[query.event].attributes)
  => (query.value <=> \A item \in query.pattern : agrees(query.event, item))

\* C19: cascade extraction returns for every event set the engine can
\* produce, a cycle of manual relationships reachable from a root event
\* included: detect_patterns never ends in the interpreter's RecursionError.
\* (No three events of the pool share a type, so no other exception can end
\* the call.)
C19_CascadesReturn ==
  query.op = "detect_patterns" => ~query.raised

\* C19 for edge lists without a cycle: the call returns.
C19_ReturnsWithoutCycle ==
  (/\ query.op = "detect_patterns"
   /\ ~(InList(<<"C">>, triggers["b"]) /\ InList(<<"B">>, triggers["c"])))
  => ~query.raised

\* The edges of the relationship graph in the direction asked for: the
\* (cause, effect) pairs of the primary map, reversed for "backward".
edges(direction) ==
  {IF direction = "forward" THEN <<r.cause_event_id, r.effect_event_id>>
   ELSE <<r.effect_event_id, r.cause_event_id>> : r \in stored_relationships}

\* The ids reachable from the ids of set along at most k edges.
RECURSIVE reachable(_, _, _)
reachable(set, direction, k) ==
  LET further == set \cup {pair[2] : pair \in {p \in edges(direction) : p[1] \in set}}
  IN IF k <= 0 \/ further = set THEN set ELSE reachable(further, direction, k - 1)

\* C20: get_causal_chain returns [] for an unknown id or max_depth <= 0;
\* otherwise the chain starts with the event of the given id, holds no event
\* twice, and holds only events reachable from the start along fewer than
\* max_depth edges of the chosen direction.
C20_ChainIsBoundedAndDuplicateFree ==
  query.op = "get_causal_chain" =>
    LET chain == query.value
        ids == [i \in 1..Len(chain) |-> EventPool[chain[i]].id]
    IN IF query.event_id \notin stored_ids(events) \/ query.max_depth <= 0
         THEN chain = <<>>
         ELSE /\ Len(chain) >= 1
              /\ ids[1] = query.event_id
              /\ \A i, j \in 1..Len(chain) : i # j => ids[i] # ids[j]
              /\ \A i \in 1..Len(chain) :
                   /\ chain[i] \in stored_objects
                   /\ ids[i] \in reachable({query.event_id}, query.direction,
                                           query.max_depth - 1)

\* C20 witness: a backward chain over the cycle A->B, B->C, C->A that took
\* in all three events, and so met the start again.
C20_Witness ==
  /\ query.op = "get_causal_chain"
  /\ query.direction = "backward"
  /\ {key_ab, key_bc, key_ca} \subseteq DOMAIN relationships
  /\ Len(query.value) = 3

\* The ids of the events of a returned chain.
chain_ids == {EventPool[query.value[i]].id : i \in 1..Len(query.value)}

\* C21: get_causal_chain returns every stored event reachable from the start
\* along at most max_depth - 1 edges of the chosen direction, whatever the
\* order in which the relationships were added.
C21_ChainHoldsAllWithinDepth ==
  (/\ query.op = "get_causal_chain"
   /\ query.event_id \in stored_ids(events)
   /\ query.max_depth > 0)
  => reachable({query.event_id}, query.direction, query.max_depth - 1) \subseteq chain_ids

\* C21 for a max_depth above the number of stored events, which cuts off no
\* route: the chain holds every reachable event.
C21_ChainHoldsAllWhenDeep ==
  (/\ query.op = "get_causal_chain"
   /\ query.event_id \in stored_ids(events)
   /\ query.max_depth > Len(events))
  => reachable({query.event_id}, query.direction, query.max_depth - 1) \subseteq chain_ids

\* The number of relationships of the primary map with the event of id at
\* the end named by field.
stored_count(id, field) ==
  Cardinality({key \in DOMAIN relationships :
                 IF field = "cause" THEN relationships[key].cause_event_id = id
                 ELSE relationships[key].effect_event_id = id})

\* What C22 says of a ranking that counts the relationships at the end field.
ranking_is_right(ranking, top_n, field) ==
  /\ Len(ranking) <= top_n
  /\ \A i \in 1..Len(ranking) :
       /\ ranking[i].count = stored_count(EventPool[ranking[i].event].id, field)
       /\ ranking[i].count > 0
  /\ \A i \in 1..(Len(ranking) - 1) : ranking[i].count >= ranking[i + 1].count

\* C22: the rankings report for each listed event the number of
\* relationships of the primary map with that event as cause (as effect),
\* list only events with a count above 0, in non-increasing count order,
\* truncated to top_n.
C22_RankingCountsStoredRelationships ==
  /\ query.op = "get_most_influential_events" =>
       ranking_is_right(query.value, query.top_n, "cause")
  /\ query.op = "get_most_affected_events" =>
       ranking_is_right(query.value, query.top_n, "effect")

\* C22 in states where every stored pair was offered once.
C22_RankingAfterSingleOffers ==
  TotalLen(relationships_by_cause) = Cardinality(DOMAIN relationships) =>
    C22_RankingCountsStoredRelationships

\* The stored relationship that links two events, if any.
link(cause, effect) == rel_id(EventPool[cause].id, EventPool[effect].id)

\* The sum of the confidences of the stored relationships along path[i..].
RECURSIVE edge_confidences(_, _)
edge_confidences(path, i) ==
  IF i >= Len(path) THEN 0
  ELSE relationships[link(path[i], path[i + 1])].confidence_score
       + edge_confidences(path, i + 1)

\* What C23 says of one returned path.
path_is_critical(path, min_length) ==
  /\ Len(path) >= min_length
  /\ stored_count(EventPool[path[1]].id, "effect") = 0
  /\ \A i, j \in 1..Len(path) : i # j => path[i] # path[j]
  /\ \A i \in 1..(Len(path) - 1) :
       /\ link(path[i], path[i + 1]) \in DOMAIN relationships
       /\ relationships[link(path[i], path[i + 1])].confidence_score >= min_confidence

\* The mean edge confidence of p is at least that of q (paths of two or
\* more events, compared without division).
mean_at_least(p, q) ==
  edge_confidences(p, 1) * (Len(q) - 1) >= edge_confidences(q, 1) * (Len(p) - 1)

\* C23: every path of find_critical_paths starts at an event without
\* causes, has at least min_length events, repeats no event and follows
\* stored relationships of confidence >= min_confidence; the list is in
\* non-increasing order of mean edge confidence.
C23_CriticalPathsRanked ==
  query.op = "find_critical_paths" =>
    /\ \A i \in 1..Len(query.value) : path_is_critical(query.value[i], query.min_length)
    /\ \A i \in 1..(Len(query.value) - 1) :
         mean_at_least(query.value[i], query.value[i + 1])

\* C23 without the order of the list.
C23_PathsAreCritical ==
  query.op = "find_critical_paths" =>
    \A i \in 1..Len(query.value) : path_is_critical(query.value[i], query.min_length)

\* C23 in states where every stored pair was offered once.
C23_RankedAfterSingleOffers ==
  TotalLen(relationships_by_cause) = Cardinality(DOMAIN relationships) =>
    C23_CriticalPathsRanked

\* C24: no query of the engine or of the analyzer changes the engine: event
\* store, type and timestamp indices, primary map, both relationship
\* indices (keys and contents) and counters are the same after the call.
C24_QueriesChangeNothing ==
  [][query' # query =>
       UNCHANGED <<events, events_by_type, events_by_timestamp, relationships,
                   relationships_by_cause, relationships_by_effect, stats>>]_vars

\* C24 witness: a summary report was made of an engine with relationships in
\* which some stored event has no entry in the cause index, which the report
\* looked up all the same.
C24_Witness ==
  /\ query.op = "generate_summary_report"
  /\ Cardinality(DOMAIN relationships) >= 2
  /\ \E id \in stored_ids(events) : id \notin DOMAIN relationships_by_cause

(***************************************************************************)
(* C25: the ids a detector assigns carry the prefix of the pattern's kind  *)
(* and a counter that grows by one with every registration; the counter    *)
(* never goes back, across method calls and across clear(), so that no id  *)
(* is assigned twice.                                                      *)
(***************************************************************************)
DetectorOps ==
  {"detect_sequences", "detect_co_occurrences", "detect_cascades", "find_periodic_patterns"}

prefix_of(pattern_type) ==
  CASE pattern_type = "sequence" -> "seq"
    [] pattern_type = "co_occurrence" -> "cooc"
    [] pattern_type = "cascade" -> "casc"
    [] pattern_type = "periodic" -> "per"

registered_ids(list) == {list[i].pattern_id : i \in 1..Len(list)}

C25_StepIds ==
  /\ pattern_detector'.pattern_counter >= pattern_detector.pattern_counter
  /\ \A id \in DOMAIN pattern_detector.detected_patterns :
       id[2] < pattern_detector.pattern_counter
  /\ (query' # query \/ pattern_detector'.pattern_counter # pattern_detector.pattern_counter) =>
       /\ query'.op \in DetectorOps
       /\ \A i \in 1..Len(query'.registered) :
            /\ query'.registered[i].pattern_id =
                 <<prefix_of(query'.registered[i].pattern_type),
                   pattern_detector.pattern_counter + i - 1>>
            /\ query'.registered[i].pattern_id \notin DOMAIN pattern_detector.detected_patterns
            /\ pattern_detector'.detected_patterns[query'.registered[i].pattern_id] =
                 query'.registered[i]
       /\ pattern_detector'.pattern_counter =
            pattern_detector.pattern_counter + Len(query'.registered)
       /\ DOMAIN pattern_detector'.detected_patterns =
            DOMAIN pattern_detector.detected_patterns \cup registered_ids(query'.registered)

C25_PatternIdsNeverReused == [][C25_StepIds]_vars

\* A pattern registered after clear() under a counter above those given before.
C25_Witness ==
  /\ query # no_query
  /\ query.op \in DetectorOps
  /\ Len(query.registered) > 0
  /\ DOMAIN pattern_detector.detected_patterns = registered_ids(query.registered)
  /\ \A id \in DOMAIN pattern_detector.detected_patterns : id[2] > 0

(***************************************************************************)
(* C26: in an auto-discovering engine fed by add_event alone, every        *)
(* relationship held in the primary map or in an index has a lag above 0   *)
(* and of at most time_window_minutes, the distance of its two stored      *)
(* events, and the relationships form no self-loop and no cycle.           *)
(***************************************************************************)
held_edges == {<<r.cause_event_id, r.effect_event_id>> : r \in held_relationships}

\* The ids reached from the ids of set along one to k held relationships.
RECURSIVE descendants(_, _)
descendants(set, k) ==
  LET children == {pair[2] : pair \in {p \in held_edges : p[1] \in set}}
  IN IF k <= 0 \/ children = {} THEN {}
     ELSE children \cup descendants(children, k - 1)

C26_DiscoveredLagsPositiveNoCycle ==
  /\ \A r \in held_relationships :
       /\ r.time_lag_minutes > 0
       /\ r.time_lag_minutes <= time_window_minutes
       /\ {r.cause_event_id, r.effect_event_id} \subseteq stored_ids(events)
       /\ r.time_lag_minutes =
            EventPool[stored_event(events, r.effect_event_id)].timestamp
            - EventPool[stored_event(events, r.cause_event_id)].timestamp
       /\ r.cause_event_id # r.effect_event_id
  /\ \A id \in EventIds : id \notin descendants({id}, Cardinality(EventIds))

\* A chain A->B->C and the relationship A->C whose lag is the whole window,
\* discovered while C was stored before A.
C26_Witness ==
  /\ time_window_minutes = 120
  /\ events = <<"c", "b", "a">>
  /\ {rel_id(<<"A">>, <<"B">>), rel_id(<<"B">>, <<"C">>), rel_id(<<"A">>, <<"C">>)}
       \subseteq DOMAIN relationships
  /\ relationships[rel_id(<<"A">>, <<"C">>)].time_lag_minutes = 120

\* Two stored events of one timestamp, with no relationship between them.
C26_WitnessSameTime ==
  /\ events = <<"a2", "b">>
  /\ every_pair_is_recorded
  /\ relationships = EmptyMap

(***************************************************************************)
(* C27: insertion order and the primary map.                               *)
(***************************************************************************)
\* y lies after x and at most one window later.
in_window(x, y) ==
  /\ EventPool[y].timestamp - EventPool[x].timestamp > 0
  /\ EventPool[y].timestamp - EventPool[x].timestamp <= time_window_minutes

\* What one evaluation of the pair (x, y) stores in an engine without relationships.
one_evaluation(x, y) ==
  check_causal_relationship(fresh_engine, events, <<rules, rules_by_cause_type>>,
                            min_confidence, x, y)

\* The entries of the cause index that run from x to y.
entries_of(index, x, y) ==
  SelectSeq(Get(index, EventPool[x].id, <<>>),
            LAMBDA r : r.effect_event_id = EventPool[y].id)

\* Number of times the rule any_to_any was applied to the pair (x, y).
evaluations(x, y) ==
  Len(SelectSeq(entries_of(relationships_by_cause, x, y),
                LAMBDA r : r.discovery_method = <<"rule", "any_to_any">>))

returned_relationship(cause_event_id, effect_event_id, args) ==
  [cause_event_id |-> cause_event_id,
   effect_event_id |-> effect_event_id,
   causality_type |-> args.causality_type,
   strength |-> args.strength,
   confidence_score |-> args.confidence,
   time_lag_minutes |-> EventPool[stored_event(events, effect_event_id)].timestamp
                        - EventPool[stored_event(events, cause_event_id)].timestamp,
   discovery_method |-> <<"manual">>]

\* A call on two stored events that returned, in this step.
manual_call_returned(cause_event_id, effect_event_id, args) ==
  /\ {cause_event_id, effect_event_id} \subseteq stored_ids(events)
  /\ add_manual_relationship(cause_event_id, effect_event_id, args)
  /\ outcome' = "ok"

C28_StepReturnedIsStored ==
  \A pair \in SmallPairs, args \in ManualArgs :
    LET cause_event_id == EventPool[pair[1]].id
        effect_event_id == EventPool[pair[2]].id
        key == rel_id(cause_event_id, effect_event_id)
    IN manual_call_returned(cause_event_id, effect_event_id, args) =>
         /\ key \in DOMAIN relationships'
         /\ relationships'[key] = returned_relationship(cause_event_id, effect_event_id, args)

\* C28: the relationship add_manual_relationship returns is tagged manual and
\* is the one the primary map holds for its pair after the call, whatever
\* min_confidence, the strength passed and the relationship held before.
C28_ReturnedIsStored == [][C28_StepReturnedIsStored]_vars

C28_StepReturnedIsStoredUnlessHeld ==
  \A pair \in SmallPairs, args \in ManualArgs :
    LET cause_event_id == EventPool[pair[1]].id
        effect_event_id == EventPool[pair[2]].id
        key == rel_id(cause_event_id, effect_event_id)
    IN (/\ manual_call_returned(cause_event_id, effect_event_id, args)
        /\ (key \in DOMAIN relationships =>
              relationships[key].confidence_score < args.confidence)) =>
         /\ key \in DOMAIN relationships'
         /\ relationships'[key] = returned_relationship(cause_event_id, effect_event_id, args)
         /\ Get(relationships_by_cause', cause_event_id, <<>>) =
              Append(Get(relationships_by_cause, cause_event_id, <<>>),
                     returned_relationship(cause_event_id, effect_event_id, args))

\* The part of C28 that holds: the returned relationship is the stored one
\* where the pair had no relationship, or one of lower confidence, before.
C28_ReturnedIsStoredUnlessHeld == [][C28_StepReturnedIsStoredUnlessHeld]_vars

(***************************************************************************)
(* C29: in every state, events_by_timestamp holds exactly the stored       *)
(* events, each once, in non-decreasing timestamp order; the lists of      *)
(* events_by_type hold each stored event once, under its own event_type;   *)
(* and both endpoints of every relationship of the primary map and of the  *)
(* two indices are stored events.                                          *)
(***************************************************************************)
\* The list holds no object twice.
no_repeats(list) == Cardinality(SeqToSet(list)) = Len(list)

C29_IndicesHoldStoredEvents ==
  /\ no_repeats(events)
  /\ Cardinality(stored_ids(events)) = Len(events)
  /\ no_repeats(events_by_timestamp)
  /\ SeqToSet(events_by_timestamp) = stored_objects
  /\ \A i \in 1..Len(events_by_timestamp) : \A j \in i..Len(events_by_timestamp) :
       EventPool[events_by_timestamp[i]].timestamp <= EventPool[events_by_timestamp[j]].timestamp
  /\ \A t \in DOMAIN events_by_type :
       /\ no_repeats(events_by_type[t])
       /\ \A i \in 1..Len(events_by_type[t]) :
            EventPool[events_by_type[t][i]].event_type = t
  /\ UNION {SeqToSet(events_by_type[t]) : t \in DOMAIN events_by_type} = stored_objects
  /\ \A r \in held_relationships :
       {r.cause_event_id, r.effect_event_id} \subseteq stored_ids(events)

\* b was stored before the earlier a, and a relationship is held.
C29_Witness ==
  /\ events = <<"b", "a">>
  /\ events_by_timestamp = <<"a", "b">>
  /\ DOMAIN events_by_type = {"price_change", "demand_change"}
  /\ held_relationships # {}

\* An add_event call has ended in an exception, the event being stored.
C29_WitnessRaised ==
  /\ outcome = "raised"
  /\ Len(events) = 2
  /\ Len(events_by_timestamp) = 2

(***************************************************************************)
(* C30: find_periodic_patterns.                                            *)
(***************************************************************************)
\* Some event type has three or more stored events, all of one timestamp.
same_time_type ==
  \E t \in DOMAIN events_by_type :
    /\ Len(events_by_type[t]) >= 3
    /\ \A i, j \in 1..Len(events_by_type[t]) :
         EventPool[events_by_type[t][i]].timestamp = EventPool[events_by_type[t][j]].timestamp

\* Every pattern of the list has one event type with three or more
\* occurrences and a well-defined, non-negative ratio of deviation to mean
\* interval, which puts 1 - min(ratio, 1) within [0, 1].
periodic_patterns_are_sound(list) ==
  \A i \in 1..Len(list) :
    /\ list[i].pattern_type = "periodic"
    /\ Len(list[i].event_types) = 1
    /\ list[i].occurrence_count >= 3
    /\ list[i].confidence[1] >= 0
    /\ list[i].confidence[2] > 0

\* C30: find_periodic_patterns returns a list without raising for every event
\* list, three or more events of one type and one timestamp included, and
\* every pattern it returns has at least 3 occurrences of one event type and
\* a confidence within [0, 1].
C30_PeriodicReturns ==
  query.op = "find_periodic_patterns" =>
    /\ ~query.raised
    /\ periodic_patterns_are_sound(query.value)

C30_StepPeriodicReturnsUnlessSameTime ==
  call_find_periodic_patterns =>
    /\ query'.raised <=> same_time_type
    /\ periodic_patterns_are_sound(query'.value)
    /\ \A i \in 1..Len(query'.value) :
         query'.value[i].occurrence_count =
           Len(Get(events_by_type, query'.value[i].event_types[1], <<>>))

\* The part of C30 that holds: the call raises exactly when some type has
\* three or more events that all carry one timestamp, and returns a list of
\* sound patterns otherwise.
C30_PeriodicReturnsUnlessSameTime == [][C30_StepPeriodicReturnsUnlessSameTime]_vars

====
